---- MODULE Spec2Model ----
(***************************************************************************)
(* The BMHOME XML feed sync engine (scripts/bmhome-xml-sync.ts): the lock  *)
(* marker, the run lifecycle, the read/drain loop, per-record             *)
(* reconciliation (processProduct), the missing-product sweep and the      *)
(* finalization of the Run record.                                         *)
(*                                                                         *)
(* Money is kept in cents (integers); the USD->EUR rate in hundredths.     *)
(* Price strings are real strings ("", "0.00", "72.00").                   *)
(***************************************************************************)
EXTENDS Integers, Sequences, FiniteSets, TLC

\* ------------------------------------------------------------------------
\* Values
\* ------------------------------------------------------------------------

\* null / undefined of a string-valued field (defaultSize, existing product)
Null == "null"

\* null of a number-valued field (priceUsd, priceEur, normalized price value)
NoNum == 0 - 1

PROGRESS_EVERY == 25

\* ------------------------------------------------------------------------
\* Strings the code inspects with regexes / Unicode functions.  The model
\* enumerates the texts of its inputs and tabulates what the library calls
\* return on them.
\* ------------------------------------------------------------------------

\* String.prototype.toLowerCase().trim() on the flag / stock texts in use
LowerTrim(text) ==
  CASE text = "Evet" -> "evet"
    [] text = "TRUE" -> "true"
    [] text = " available " -> "available"
    [] OTHER -> text

\* String.prototype.includes on the (lowercased) texts in use
Includes(text, needle) ==
  <<text, needle>> \in
    { <<"evet", "evet">>, <<"available", "available">>,
      <<"out of stock", "out">>, <<"var", "var">>, <<"yok", "yok">>,
      <<"stokta", "stok">>, <<"in stock", "in stock">> }

normalizeFlag(value) ==
  LET text == LowerTrim(value) IN
  IF text = "" THEN FALSE
  ELSE IF text \in {"evet", "true", "1", "yes", "y"} THEN TRUE
  ELSE IF text \in {"hayir", "false", "0", "no", "n"} THEN FALSE
  ELSE Includes(text, "evet")

\* Number.parseFloat on the stock texts in use: NoNum stands for NaN
ParseFloatStock(text) ==
  CASE text = "5" -> 5
    [] text = "0" -> 0
    [] OTHER -> NoNum

parseStockStatus(value) ==
  LET text == LowerTrim(value)
      numeric == ParseFloatStock(text) IN
  IF text = "" THEN FALSE
  ELSE IF numeric # NoNum THEN numeric > 0
  ELSE IF Includes(text, "out") THEN FALSE
  ELSE IF Includes(text, "yok") \/ Includes(text, "tukendi") THEN FALSE
  ELSE IF text = "var" \/ Includes(text, "var") THEN TRUE
  ELSE IF Includes(text, "stok") THEN TRUE
  ELSE IF Includes(text, "in stock") THEN TRUE
  ELSE IF Includes(text, "available") THEN TRUE
  ELSE FALSE

\* SIZE_REGEX match on the size texts in use: the two captures, or <<>>
SIZE_REGEX(text) ==
  CASE text \in {"80x150 cm", "80 x 150 cm"} -> <<"80", "150">>
    [] text \in {"160x230", "160 x 230 cm"} -> <<"160", "230">>
    [] OTHER -> <<>>

\* Number(capture) for the captures above
NumberOf(text) ==
  CASE text = "80" -> 80
    [] text = "150" -> 150
    [] text = "160" -> 160
    [] text = "230" -> 230
    [] OTHER -> 0

parseSizeArea(size) ==
  LET match == SIZE_REGEX(size) IN
  IF match = <<>> THEN 0 ELSE NumberOf(match[1]) * NumberOf(match[2])

normalizeSizeLabel(size) ==
  LET match == SIZE_REGEX(size) IN
  IF match = <<>> THEN size ELSE match[1] \o " x " \o match[2] \o " cm"

\* trim, upper-case, NFKD, strip combining marks, collapse separators
normalizeKey(raw) ==
  CASE raw \in {"Özel Ölçü", "ozel olcu", "OZEL ÖLÇÜ"} -> "OZEL OLCU"
    [] raw = "Runner" -> "RUNNER"
    [] raw = "80 x 150 cm" -> "80 X 150 CM"
    [] raw = "160 x 230 cm" -> "160 X 230 CM"
    [] raw = "80x150 cm" -> "80X150 CM"
    [] raw = "160x230" -> "160X230"
    [] OTHER -> raw

isSpecialSizeLabel(value) ==
  IF value = "" THEN FALSE ELSE normalizeKey(value) = "OZEL OLCU"

\* scripts/bmhome-xml/normalize: parse a raw price text, tolerant of
\* thousands separators; value in cents, NoNum when unparseable
normalizePriceWithMeta(raw) ==
  LET value == CASE raw = "100" -> 10000
                 [] raw = "80" -> 8000
                 [] raw = "1,234.50" -> 123450
                 [] raw = "0" -> 0
                 [] raw = "0.01" -> 1
                 [] raw = "-5" -> 0 - 500
                 [] OTHER -> NoNum
  IN [ value |-> value,
       classification |-> IF value = NoNum THEN "invalid"
                          ELSE IF value > 0 THEN "ok" ELSE "zero_or_negative" ]

\* Number.prototype.toFixed(2) of an amount held in cents
Pad2(n) == IF n < 10 THEN "0" \o ToString(n) ELSE ToString(n)

toFixed2(cents) == ToString(cents \div 100) \o "." \o Pad2(cents % 100)

\* Number((priceUsd * usdToEurRate).toFixed(2)): cents times a rate in
\* hundredths, rounded half-up to a whole cent
ConvertToEur(priceUsd, usdToEurRate) == (priceUsd * usdToEurRate + 50) \div 100

\* ------------------------------------------------------------------------
\* processProduct: variant normalization and the visibility decision
\* ------------------------------------------------------------------------

\* value && value > 0 ? value : null
positiveOrNull(value) == IF value # NoNum /\ value > 0 THEN value ELSE NoNum

\* variant.size ? normalizeSizeLabel(variant.size) : undefined ("" here)
sizeLabelOf(size) == IF size # "" THEN normalizeSizeLabel(size) ELSE ""

\* the USD price of a custom-size variant taken like any other
priceUsdOf_customPriced(isSpecialSize, discountPriceUsd, salePriceUsd) ==
  IF discountPriceUsd # NoNum /\ discountPriceUsd > 0 THEN discountPriceUsd
  ELSE salePriceUsd

\* the regular price preferred over the discounted one
priceUsdOf_regularFirst(isSpecialSize, discountPriceUsd, salePriceUsd) ==
  IF isSpecialSize THEN NoNum
  ELSE IF salePriceUsd # NoNum /\ salePriceUsd > 0 THEN salePriceUsd
  ELSE discountPriceUsd

\* lines 598-603: a custom-size variant carries no price
priceUsdOf(isSpecialSize, discountPriceUsd, salePriceUsd) ==
  IF isSpecialSize THEN NoNum
  ELSE IF discountPriceUsd # NoNum /\ discountPriceUsd > 0 THEN discountPriceUsd
  ELSE salePriceUsd

priceEurOf(isSpecialSize, priceUsd, usdToEurRate) ==
  IF isSpecialSize THEN NoNum
  ELSE IF priceUsd # NoNum /\ priceUsd > 0 THEN ConvertToEur(priceUsd, usdToEurRate)
  ELSE NoNum

\* lines 617-629: the normalized variant
variantRecord(variant, usdToEurRate, sizeLabel, isActive, isSpecialSize, salePriceUsd, discountPriceUsd, priceUsd) ==
  [ priceUsd |-> priceUsd,
    priceEur |-> priceEurOf(isSpecialSize, priceUsd, usdToEurRate),
    sizeLabel |-> sizeLabel,
    sizeArea |-> IF sizeLabel # "" THEN parseSizeArea(sizeLabel) ELSE 0,
    isActive |-> isActive,
    inStock |-> isActive /\ parseStockStatus(variant.stockStatus),
    isSpecialSize |-> isSpecialSize,
    salePriceUsd |-> salePriceUsd,
    discountPriceUsd |-> discountPriceUsd ]

variantPriced(variant, usdToEurRate, sizeLabel, isActive, isSpecialSize, salePriceUsd, discountPriceUsd) ==
  variantRecord(variant, usdToEurRate, sizeLabel, isActive, isSpecialSize,
                salePriceUsd, discountPriceUsd,
                priceUsdOf(isSpecialSize, discountPriceUsd, salePriceUsd))

variantSized(variant, usdToEurRate, sizeLabel, isActive, salePriceUsd, discountPriceUsd) ==
  variantPriced(variant, usdToEurRate, sizeLabel, isActive,
                isSpecialSizeLabel(IF sizeLabel # "" THEN sizeLabel ELSE variant.size),
                salePriceUsd, discountPriceUsd)

\* lines 586-630: product.variants.map(...)
variantData(variant, usdToEurRate) ==
  variantSized(variant, usdToEurRate, sizeLabelOf(variant.size),
               normalizeFlag(variant.active),
               positiveOrNull(normalizePriceWithMeta(variant.price).value),
               positiveOrNull(normalizePriceWithMeta(variant.discountedPrice).value))

MapVariants(variants, usdToEurRate) ==
  [i \in 1..Len(variants) |-> variantData(variants[i], usdToEurRate)]

IsParsed(variant) == variant.sizeLabel # "" /\ variant.isActive

parsedVariants(data) == SelectSeq(data, IsParsed)

HasPrice(variant) ==
  ~variant.isSpecialSize /\ variant.priceEur # NoNum /\ variant.priceEur > 0

variantsWithPrice(parsed) == SelectSeq(parsed, HasPrice)

\* variants.reduce(..., null) of pickMinPrice: the index of the variant kept
\* (0 for null); a later variant replaces it only when strictly cheaper
RECURSIVE pickMinFrom(_, _, _)
pickMinFrom(variants, i, best) ==
  IF i > Len(variants) THEN best
  ELSE IF variants[i].priceEur = NoNum \/ variants[i].priceEur <= 0
  THEN pickMinFrom(variants, i + 1, best)
  ELSE IF best = 0 THEN pickMinFrom(variants, i + 1, i)
  ELSE IF variants[i].priceEur < variants[best].priceEur
  THEN pickMinFrom(variants, i + 1, i)
  ELSE pickMinFrom(variants, i + 1, best)

\* the reduce keeping the last of several cheapest variants
RECURSIVE pickLastMinFrom(_, _, _)
pickLastMinFrom(variants, i, best) ==
  IF i > Len(variants) THEN best
  ELSE IF variants[i].priceEur = NoNum \/ variants[i].priceEur <= 0
  THEN pickLastMinFrom(variants, i + 1, best)
  ELSE IF best = 0 THEN pickLastMinFrom(variants, i + 1, i)
  ELSE IF variants[i].priceEur <= variants[best].priceEur
  THEN pickLastMinFrom(variants, i + 1, i)
  ELSE pickLastMinFrom(variants, i + 1, best)

pickMinPrice_lastMinimum(variants) == pickLastMinFrom(variants, 1, 0)

pickMinPrice(variants) == pickMinFrom(variants, 1, 0)

\* Array.from(new Set(values)): first occurrences, in order
RECURSIVE uniqueFrom(_, _, _)
uniqueFrom(values, i, acc) ==
  IF i > Len(values) THEN acc
  ELSE IF \E j \in 1..Len(acc) : acc[j] = values[i]
  THEN uniqueFrom(values, i + 1, acc)
  ELSE uniqueFrom(values, i + 1, Append(acc, values[i]))

unique(values) == uniqueFrom(values, 1, <<>>)

IsSpecial(variant) == variant.isSpecialSize

IsInStock(variant) == variant.inStock

NonEmpty(text) == text # ""

sizeLabels(parsed) == [i \in 1..Len(parsed) |-> parsed[i].sizeLabel]

\* line 657 without the in-stock condition
priceOnRequestOf_ignoringStock(productActive, hasPositivePrice, hasActiveVariants, hasInStockVariant, hasSpecialSize) ==
  productActive /\ ~hasPositivePrice /\ hasActiveVariants /\ hasSpecialSize

\* line 657
priceOnRequestOf(productActive, hasPositivePrice, hasActiveVariants, hasInStockVariant, hasSpecialSize) ==
  productActive /\ ~hasPositivePrice /\ hasActiveVariants
    /\ hasInStockVariant /\ hasSpecialSize

\* line 665: baseVariant?.sizeLabel ?? specialVariant?.sizeLabel ?? uniqueSizes[0]
defaultSizeOf(priced, base, specials, uniqueSizes) ==
  IF base # 0 THEN priced[base].sizeLabel
  ELSE IF Len(specials) > 0 THEN specials[1].sizeLabel
  ELSE IF Len(uniqueSizes) > 0 THEN uniqueSizes[1]
  ELSE Null

\* lines 668-686: the visibility decision
decide(productActive, hasPositivePrice, basePriceEur, priceOnRequest, hasInStockVariant) ==
  IF ~productActive
  THEN [ newPrice |-> "", inStock |-> FALSE, branch |-> "deactivated" ]
  ELSE IF hasPositivePrice /\ basePriceEur # NoNum /\ basePriceEur # 0
  THEN [ newPrice |-> toFixed2(basePriceEur), inStock |-> hasInStockVariant,
         branch |-> "priced" ]
  ELSE IF priceOnRequest
  THEN [ newPrice |-> "0.00", inStock |-> hasInStockVariant,
         branch |-> "priceOnRequest" ]
  ELSE [ newPrice |-> "", inStock |-> hasInStockVariant, branch |-> "hiddenNoPrice" ]

deriveResult(product, variantsFound, variantsParsed, flags, priceOnRequest, uniqueSizes, defaultSize, decision) ==
  [ variantsFound |-> variantsFound,
    variantsParsed |-> variantsParsed,
    productActive |-> flags.productActive,
    hasPositivePrice |-> flags.hasPositivePrice,
    hasActiveVariants |-> flags.hasActiveVariants,
    hasInStockVariant |-> flags.hasInStockVariant,
    hasSpecialSize |-> flags.hasSpecialSize,
    basePriceEur |-> flags.basePriceEur,
    priceOnRequest |-> priceOnRequest,
    uniqueSizes |-> uniqueSizes,
    defaultSize |-> defaultSize,
    newPrice |-> decision.newPrice,
    inStock |-> decision.inStock,
    branch |-> decision.branch,
    uniqueImages |-> unique(SelectSeq(product.images, NonEmpty)) ]

deriveDecision(product, variantsFound, variantsParsed, flags, priceOnRequest, uniqueSizes, defaultSize) ==
  deriveResult(product, variantsFound, variantsParsed, flags, priceOnRequest,
               uniqueSizes, defaultSize,
               decide(flags.productActive, flags.hasPositivePrice,
                      flags.basePriceEur, priceOnRequest, flags.hasInStockVariant))

deriveFlags(product, variantsFound, parsed, priced, base, uniqueSizes, specials, flags) ==
  deriveDecision(product, variantsFound, Len(parsed), flags,
                 priceOnRequestOf(flags.productActive, flags.hasPositivePrice,
                                  flags.hasActiveVariants, flags.hasInStockVariant,
                                  flags.hasSpecialSize),
                 uniqueSizes, defaultSizeOf(priced, base, specials, uniqueSizes))

\* lines 649-655: the derived booleans and the base price
flagsOf(product, parsed, priced, base) ==
  [ productActive |-> normalizeFlag(product.active),
    hasPositivePrice |-> Len(priced) > 0,
    hasActiveVariants |-> Len(parsed) > 0,
    hasInStockVariant |-> Len(SelectSeq(parsed, IsInStock)) > 0,
    hasSpecialSize |-> Len(SelectSeq(parsed, IsSpecial)) > 0,
    basePriceEur |-> IF base = 0 THEN NoNum ELSE priced[base].priceEur ]

derivePriced(product, variantsFound, parsed, priced, base) ==
  deriveFlags(product, variantsFound, parsed, priced, base,
              unique(sizeLabels(parsed)), SelectSeq(parsed, IsSpecial),
              flagsOf(product, parsed, priced, base))

deriveParsed(product, variantsFound, parsed, priced) ==
  derivePriced(product, variantsFound, parsed, priced, pickMinPrice(priced))

deriveData(product, data, parsed) ==
  deriveParsed(product, Len(data), parsed, variantsWithPrice(parsed))

deriveVariants(product, data) == deriveData(product, data, parsedVariants(data))

\* lines 583-686 and 733-734: everything processProduct derives from the
\* feed record alone
derive(product, usdToEurRate) ==
  deriveVariants(product, MapVariants(product.variants, usdToEurRate))

\* ------------------------------------------------------------------------
\* Inputs: feed records, feeds, configurations, initial catalog
\* ------------------------------------------------------------------------

MaxFeedLen == 2
MaxExtra == 1
MaxChunk == 2
MaxLimit == 1
MaxRuns == 2
MaxFaults == 1
MaxInvalid == 10

VPriced ==
  [ active |-> "true", stockStatus |-> "available", price |-> "100",
    discountedPrice |-> "80", size |-> "80x150 cm" ]

VLarge ==
  [ active |-> "Evet", stockStatus |-> "5", price |-> "1,234.50",
    discountedPrice |-> "0", size |-> "160x230" ]

VSpecial ==
  [ active |-> "true", stockStatus |-> "available", price |-> "",
    discountedPrice |-> "", size |-> "Özel Ölçü" ]

\* a second size at the price VPriced ends with
VTie ==
  [ active |-> "true", stockStatus |-> "available", price |-> "80",
    discountedPrice |-> "", size |-> "160x230" ]

ProdA1 ==
  [ id |-> "A", active |-> "true", images |-> <<"a.jpg">>,
    variants |-> <<VLarge, VPriced>> ]

ProdA2 == [ id |-> "A", active |-> "true", images |-> <<>>, variants |-> <<>> ]

ProdB1 ==
  [ id |-> "B", active |-> "true", images |-> <<"b.jpg", "b.jpg">>,
    variants |-> <<VSpecial>> ]

ProdB2 ==
  [ id |-> "B", active |-> "false", images |-> <<"b.jpg">>,
    variants |-> <<VPriced>> ]

ProdNoId == [ id |-> "", active |-> "true", images |-> <<>>, variants |-> <<VPriced>> ]

FillerCode(i) == "F" \o ToString(i)

FillerProduct(i) ==
  [ id |-> FillerCode(i), active |-> "true", images |-> <<>>, variants |-> <<VPriced>> ]

Urun(product) == [ type |-> "Urun", product |-> product ]

\* a malformed byte sequence in the feed: sax reports it through onerror
ParseErrorItem == [ type |-> "parseError", product |-> ProdNoId ]

\* the transport fails at this point of the stream
StreamErrorItem == [ type |-> "streamError", product |-> ProdNoId ]

Items ==
  { Urun(ProdA1), Urun(ProdA2), Urun(ProdB1), Urun(ProdB2), Urun(ProdNoId),
    ParseErrorItem, StreamErrorItem }

SeqsUpTo(S, n) == UNION { [1..k -> S] : k \in 0..n }

Filler(n) == [i \in 1..n |-> Urun(FillerProduct(i))]

\* n records without a product code: each is an error of the run
Invalid(n) == [i \in 1..n |-> Urun(ProdNoId)]

\* short feeds over every item, and feeds long enough to fill the queue to
\* the drain threshold
FeedItems ==
  SeqsUpTo(Items, MaxFeedLen)
    \cup { Filler(PROGRESS_EVERY - 1 + k) \o tail :
             k \in 0..MaxExtra, tail \in SeqsUpTo({Urun(ProdA1), ParseErrorItem}, 1) }
    \cup { <<head>> \o Filler(PROGRESS_EVERY - 1) : head \in {Urun(ProdA1), Urun(ProdNoId)} }
    \cup { Invalid(MaxInvalid) \o tail : tail \in SeqsUpTo({Urun(ProdNoId), ParseErrorItem}, 1) }

Feeds ==
  { [ fetchOk |-> TRUE, items |-> items ] : items \in FeedItems }
    \cup { [ fetchOk |-> FALSE, items |-> <<>> ] }

Configs ==
  { [ dryRun |-> m[1], parseOnly |-> m[2], limit |-> l ] :
      m \in { <<FALSE, FALSE>>, <<TRUE, FALSE>>, <<FALSE, TRUE>> },
      l \in 0..MaxLimit }

Codes == {"A", "B", "C"} \cup { FillerCode(i) : i \in 1..(PROGRESS_EVERY + MaxExtra) }

NoRow ==
  [ exists |-> FALSE, price |-> "", sizes |-> <<>>, defaultSize |-> Null,
    images |-> <<>>, inStock |-> FALSE, isNew |-> FALSE, isRunners |-> FALSE,
    source |-> "NONE", priceOnRequest |-> FALSE ]

OldA ==
  [ exists |-> TRUE, price |-> "50.00", sizes |-> <<"80 x 150 cm">>,
    defaultSize |-> "80 x 150 cm", images |-> <<"old.jpg">>, inStock |-> TRUE,
    isNew |-> FALSE, isRunners |-> FALSE, source |-> "BMHOME",
    priceOnRequest |-> FALSE ]

VisibleC ==
  [ exists |-> TRUE, price |-> "30.00", sizes |-> <<"160 x 230 cm">>,
    defaultSize |-> "160 x 230 cm", images |-> <<"c.jpg">>, inStock |-> TRUE,
    isNew |-> FALSE, isRunners |-> FALSE, source |-> "BMHOME",
    priceOnRequest |-> FALSE ]

\* a visible product that another source owns
ForeignC == [ VisibleC EXCEPT !.source = "OTHER", !.isNew = TRUE ]

\* a product an earlier run left as price on request
RequestC ==
  [ VisibleC EXCEPT !.price = "0.00", !.sizes = <<"Özel Ölçü">>,
                    !.defaultSize = "Özel Ölçü", !.priceOnRequest = TRUE ]

\* a product of another source whose defaultSize is none of its sizes
LooseA ==
  [ OldA EXCEPT !.source = "OTHER", !.sizes = <<"200 x 300 cm">>,
                !.defaultSize = "Runner" ]

InitialStores ==
  { [ c \in Codes |-> CASE c = "A" -> a [] c = "C" -> cc [] OTHER -> NoRow ] :
      a \in {NoRow, OldA}, cc \in {NoRow, VisibleC, ForeignC, RequestC} }
    \cup { [ c \in Codes |-> IF c = "A" THEN LooseA ELSE NoRow ] }

\* process ids: a foreign process that stays alive, one that died, and the
\* engine's own process of each run
LivePid == 1
StalePid == 2
EnginePid(run) == 10 + run

NoLock == [ exists |-> FALSE, pid |-> 0 ]

InitialLocks ==
  { NoLock, [ exists |-> TRUE, pid |-> LivePid ], [ exists |-> TRUE, pid |-> StalePid ],
    [ exists |-> TRUE, pid |-> 0 ] }

ZeroTotals ==
  [ productsFound |-> 0, productsParsed |-> 0, variantsFound |-> 0,
    variantsParsed |-> 0, created |-> 0, updated |-> 0, unchanged |-> 0,
    deactivated |-> 0, hiddenNoPriceCount |-> 0, priceOnRequestCount |-> 0,
    errorsCount |-> 0 ]

\* ------------------------------------------------------------------------
\* State
\* ------------------------------------------------------------------------

VARIABLES
  pc,               \* where main() of the current engine process stands
  runNo,            \* number of engine runs started so far
  config,           \* parseArgs result
  feed,             \* what the feed transport delivers
  pos,              \* feed items the parser has consumed
  queue,            \* const queue: ProductRaw[]
  totals,           \* SyncTotals
  topErrors,        \* messages of the retained error entries
  priceChanged,     \* PriceChange[]
  seenProductCodes, \* Set<string>
  fatalError,       \* fatalError !== null
  parserError,      \* parserError !== null
  stopRequested,
  draining,
  lastUpdateAt,
  usdToEurRate,     \* in hundredths
  lockPath,         \* what ensureLock returned
  lockFile,         \* the .lock marker in the report directory
  runRow,           \* the persisted bmhomeSyncRun row of this run
  report,           \* report.json of this run
  store,            \* the product table, by productCode
  storeAtStart,     \* history: the product table when the run started
  dequeued,         \* history: the records drainQueue has shifted, in order
  threw,            \* history: positions in dequeued whose processProduct threw
  sweepRan,         \* history: the sweep's updateMany completed
  lockAtStart,      \* history: the .lock marker when the run started
  faults            \* history: the collaborator calls that threw so far

engineVars ==
  << pc, runNo, config, feed, pos, queue, totals, topErrors, priceChanged,
     seenProductCodes, fatalError, parserError, stopRequested, draining,
     lastUpdateAt, usdToEurRate, lockPath, lockFile, runRow, report, store,
     storeAtStart, dequeued, threw, sweepRan, lockAtStart, faults >>

\* ------------------------------------------------------------------------
\* Helpers of main()
\* ------------------------------------------------------------------------

\* handleError retaining every entry
handleError_unbounded(message, t, errs) ==
  [ totals |-> [t EXCEPT !.errorsCount = @ + 1], topErrors |-> Append(errs, message) ]

\* handleError on the pair (totals, topErrors)
handleError(message, t, errs) ==
  [ totals |-> [t EXCEPT !.errorsCount = @ + 1],
    topErrors |-> IF Len(errs) < 10 THEN Append(errs, message) ELSE errs ]

\* arraysEqual comparing the lengths only
arraysEqual_lengthOnly(a, b) == Len(a) = Len(b)

arraysEqual(a, b) == Len(a) = Len(b) /\ \A i \in 1..Len(a) : a[i] = b[i]

\* NaN and Infinity of a number-valued setting
NotANumber == 0 - 2
PositiveInfinity == 1000000

getUsdToEurRate(value) ==
  IF value \in {NoNum, NotANumber, 0} \/ value = PositiveInfinity \/ value <= 0
  THEN 100
  ELSE value

\* main() converting with whatever getUsdToEurRate returns
rateUsed_unguarded(value) == getUsdToEurRate(value)

\* lines 539-546: the rate main() converts with
rateUsed(value) ==
  LET rate == getUsdToEurRate(value) IN
  IF rate < 20 \/ rate > 200 THEN 100 ELSE rate

\* settings?.usdToEurRate values in use (hundredths)
SettingsRates == {90}

\* the liveness probe answering yes for every pid
isProcessRunning_always(pid, run) == TRUE

isProcessRunning(pid, run) == pid = LivePid \/ pid = EnginePid(run)

\* ensureLock without the liveness probe: any marker is replaced
ensureLock_ignoringHolder(file, run) ==
  [ lockPath |-> ".lock", lockFile |-> [ exists |-> TRUE, pid |-> EnginePid(run) ] ]

\* ensureLock as one step of a process that runs alone
ensureLock(file, run) ==
  IF file.exists /\ file.pid # 0 /\ isProcessRunning(file.pid, run)
  THEN [ lockPath |-> "", lockFile |-> file ]
  ELSE [ lockPath |-> ".lock", lockFile |-> [ exists |-> TRUE, pid |-> EnginePid(run) ] ]

\* updateData without the fallback to the stored sizes
updateData_withoutSizesFallback(d, existing) ==
  [ exists |-> TRUE,
    price |-> d.newPrice,
    sizes |-> d.uniqueSizes,
    defaultSize |-> IF d.defaultSize # Null THEN d.defaultSize ELSE existing.defaultSize,
    images |-> IF Len(d.uniqueImages) > 0 THEN d.uniqueImages ELSE existing.images,
    inStock |-> d.inStock,
    isNew |-> FALSE,
    isRunners |-> FALSE,
    source |-> "BMHOME",
    priceOnRequest |-> d.priceOnRequest ]

\* the row prisma.product.update / create leaves for productCode
updateData(d, existing) ==
  [ exists |-> TRUE,
    price |-> d.newPrice,
    sizes |-> IF Len(d.uniqueSizes) > 0 THEN d.uniqueSizes ELSE existing.sizes,
    defaultSize |-> IF d.defaultSize # Null THEN d.defaultSize ELSE existing.defaultSize,
    images |-> IF Len(d.uniqueImages) > 0 THEN d.uniqueImages ELSE existing.images,
    inStock |-> d.inStock,
    isNew |-> FALSE,
    isRunners |-> FALSE,
    source |-> "BMHOME",
    priceOnRequest |-> d.priceOnRequest ]

\* changed comparing against the fields written before (never equal to a
\* freshly built row object)
changed_always(existing, data) == TRUE

changed(existing, data) ==
  \/ ~existing.exists
  \/ existing.price # data.price
  \/ existing.defaultSize # data.defaultSize
  \/ existing.inStock # data.inStock
  \/ existing.isNew # data.isNew
  \/ existing.isRunners # data.isRunners
  \/ existing.source # data.source
  \/ ~arraysEqual(existing.images, data.images)
  \/ ~arraysEqual(existing.sizes, data.sizes)

\* the per-branch counter of the decision table
countBranch(t, branch) ==
  CASE branch = "deactivated" -> [t EXCEPT !.deactivated = @ + 1]
    [] branch = "priceOnRequest" -> [t EXCEPT !.priceOnRequestCount = @ + 1]
    [] branch = "hiddenNoPrice" -> [t EXCEPT !.hiddenNoPriceCount = @ + 1]
    [] OTHER -> t

countClass(t, existing, data) ==
  IF ~existing.exists THEN [t EXCEPT !.created = @ + 1]
  ELSE IF changed(existing, data) THEN [t EXCEPT !.updated = @ + 1]
  ELSE [t EXCEPT !.unchanged = @ + 1]

\* validation without the duplicate check
validate_withoutDuplicateCheck(product, seen) ==
  IF product.id = "" THEN "Missing UrunKartiID" ELSE ""

\* Record validation of processProduct: "" passes, otherwise the message
validate(product, seen) ==
  IF product.id = "" THEN "Missing UrunKartiID"
  ELSE IF product.id \in seen THEN "Duplicate product in feed"
  ELSE ""

\* the price-change list taking every difference, empty prices included
pushPriceChange_anyDifference(list, productCode, existing, data) ==
  IF existing.exists /\ existing.price # data.price
  THEN Append(list, [ productCode |-> productCode, oldPrice |-> existing.price,
                      newPrice |-> data.price ])
  ELSE list

\* lines 866-868: the price-change list
pushPriceChange(list, productCode, existing, data) ==
  IF existing.exists /\ existing.price # "" /\ data.price # ""
     /\ existing.price # data.price
  THEN Append(list, [ productCode |-> productCode, oldPrice |-> existing.price,
                      newPrice |-> data.price ])
  ELSE list

\* lines 736-1014 for a valid record, with the derived values d, the row
\* found and the row to write
reconcile(productCode, S, writes, fault, d, existing, data) ==
  IF fault = "lookup"
  THEN [ S EXCEPT !.seen = @ \cup {productCode},
                  !.totals = countBranch([ @ EXCEPT !.variantsFound = @ + d.variantsFound,
                                                   !.variantsParsed = @ + d.variantsParsed ],
                                         d.branch),
                  !.threw = TRUE ]
  ELSE IF fault = "write" /\ writes
  THEN [ S EXCEPT !.seen = @ \cup {productCode},
                  !.totals = countBranch([ @ EXCEPT !.variantsFound = @ + d.variantsFound,
                                                   !.variantsParsed = @ + d.variantsParsed ],
                                         d.branch),
                  !.priceChanged = pushPriceChange(@, productCode, existing, data),
                  !.threw = TRUE ]
  ELSE [ S EXCEPT !.seen = @ \cup {productCode},
                  !.totals = countClass(
                               countBranch([ @ EXCEPT !.variantsFound = @ + d.variantsFound,
                                                      !.variantsParsed = @ + d.variantsParsed ],
                                           d.branch),
                               existing, data),
                  !.priceChanged = pushPriceChange(@, productCode, existing, data),
                  !.store = IF writes THEN [ @ EXCEPT ![productCode] = data ] ELSE @ ]

reconcileDerived(productCode, S, writes, fault, d, existing) ==
  reconcile(productCode, S, writes, fault, d, existing, updateData(d, existing))

\* the early return without the error count
skipRecord_uncounted(S, e) == S

\* the early return of a record that fails validation
skipRecord(S, e) == [ S EXCEPT !.totals = e.totals, !.topErrors = e.topErrors ]

\* processProduct with the write gate of line 870 always open
processValidated_alwaysWrites(product, S, cfg, rate, fault, invalid) ==
  IF invalid # ""
  THEN skipRecord(S, handleError(invalid, S.totals, S.topErrors))
  ELSE reconcileDerived(product.id, S, TRUE, fault, derive(product, rate), S.store[product.id])

processValidated(product, S, cfg, rate, fault, invalid) ==
  IF invalid # ""
  THEN skipRecord(S, handleError(invalid, S.totals, S.topErrors))
  ELSE reconcileDerived(product.id, S, ~cfg.dryRun /\ ~cfg.parseOnly, fault,
                        derive(product, rate), S.store[product.id])

\* processProduct on S = [totals, topErrors, priceChanged, seen, store, threw],
\* with the store's behaviour for this record: "none", or the call that
\* throws ("lookup": findUnique, "write": update / create).
processProduct(product, S, cfg, rate, fault) ==
  processValidated(product, S, cfg, rate, fault, validate(product, S.seen))

\* the catch block dropping the error
afterProcess_uncounted(S) == [ S EXCEPT !.totals.productsParsed = @ + 1 ]

\* the catch of lines 1053-1059 and the count of line 1060
afterProcess(S) ==
  IF S.threw
  THEN [ S EXCEPT !.totals = [ handleError("Product import failed", S.totals,
                                           S.topErrors).totals
                               EXCEPT !.productsParsed = @ + 1 ],
                  !.topErrors = handleError("Product import failed", S.totals,
                                            S.topErrors).topErrors ]
  ELSE [ S EXCEPT !.totals.productsParsed = @ + 1 ]

\* one iteration of drainQueue's loop, up to the checkpoint: count,
\* processProduct inside try / catch, count
drainStep(product, S, cfg, rate, fault) ==
  afterProcess(processProduct(product,
                              [ S EXCEPT !.totals.productsFound = @ + 1,
                                         !.threw = FALSE ],
                              cfg, rate, fault))

\* the codes the sweep's findMany returns
missing(products, seen) ==
  { c \in Codes : /\ products[c].exists
                  /\ products[c].source = "BMHOME"
                  /\ c \notin seen
                  /\ products[c].price # "" }

\* updateMany clearing the price only
hideMissing_priceOnly(products, seen) ==
  [ c \in Codes |->
      IF products[c].exists /\ products[c].source = "BMHOME" /\ c \notin seen
      THEN [ products[c] EXCEPT !.price = "" ]
      ELSE products[c] ]

\* the sweep leaving defaultSize as it was
hideMissing_keepsDefaultSize(products, seen) ==
  [ c \in Codes |->
      IF products[c].exists /\ products[c].source = "BMHOME" /\ c \notin seen
      THEN [ products[c] EXCEPT !.price = "", !.inStock = FALSE, !.sizes = <<>> ]
      ELSE products[c] ]

\* prisma.product.updateMany of the sweep
hideMissing(products, seen) ==
  [ c \in Codes |->
      IF products[c].exists /\ products[c].source = "BMHOME" /\ c \notin seen
      THEN [ products[c] EXCEPT !.price = "", !.inStock = FALSE,
                                !.sizes = <<>>, !.defaultSize = Null ]
      ELSE products[c] ]

finalStatus(fatal) == IF fatal THEN "FAILED" ELSE "SUCCESS"

\* ------------------------------------------------------------------------
\* State of the other specifications (declared here so that every
\* specification constrains every variable)
\* ------------------------------------------------------------------------

VARIABLES
  procs,   \* SpecLock: the engine processes sharing one report directory
  table,   \* SpecTable: one processProduct evaluation
  jobs,    \* SpecJobs: one product under sync runs and translation jobs
  sax,     \* SpecParser: the extractor's handlers over one document
  cart,    \* SpecCart: the cart store's entries
  crawl    \* SpecCrawl: one page-crawl run and its page handlers

NoSax == <<>>

NoCart == <<>>

NoCrawl == <<>>

vars == << engineVars, procs, table, jobs, sax, cart, crawl >>

NoReport == [ written |-> FALSE, totals |-> ZeroTotals, failedNote |-> FALSE ]

NoRun == [ status |-> "NONE", totals |-> ZeroTotals, checkpoints |-> 0 ]

\* ------------------------------------------------------------------------
\* Spec: one engine process at a time, MaxRuns runs over the same feed
\* ------------------------------------------------------------------------

\* main() up to the creation of the Run row (lines 398-506)
StartRun ==
  /\ pc \in {"idle", "done", "crashed"}
  /\ runNo < MaxRuns
  /\ runNo' = runNo + 1
  /\ pc' = "lock"
  /\ totals' = ZeroTotals
  /\ priceChanged' = <<>>
  /\ topErrors' = <<>>
  /\ fatalError' = FALSE
  /\ lockPath' = ""
  /\ runRow' = [ status |-> "RUNNING", totals |-> ZeroTotals, checkpoints |-> 0 ]
  /\ report' = NoReport
  /\ seenProductCodes' = {}
  /\ lastUpdateAt' = 0
  /\ parserError' = FALSE
  /\ stopRequested' = FALSE
  /\ queue' = <<>>
  /\ draining' = FALSE
  /\ pos' = 0
  /\ usdToEurRate' = 100
  /\ storeAtStart' = store
  /\ dequeued' = <<>>
  /\ threw' = {}
  /\ sweepRan' = FALSE
  /\ lockAtStart' = lockFile
  /\ UNCHANGED << config, feed, lockFile, store, faults, procs, table, jobs, sax, cart, crawl >>

\* line 508
EnsureLock ==
  /\ pc = "lock"
  /\ LET r == ensureLock(lockFile, runNo) IN
       /\ lockPath' = r.lockPath
       /\ lockFile' = r.lockFile
       /\ pc' = IF r.lockPath = "" THEN "contended" ELSE "settings"
  /\ UNCHANGED << runNo, config, feed, pos, queue, totals, topErrors, priceChanged,
                  seenProductCodes, fatalError, parserError, stopRequested, draining,
                  lastUpdateAt, usdToEurRate, runRow, report, store, storeAtStart,
                  dequeued, threw, sweepRan, faults, lockAtStart, procs, table, jobs, sax, cart, crawl >>

\* lines 509-535: the lock is held by a live process
LockContention ==
  /\ pc = "contended"
  /\ report' = [ written |-> TRUE, totals |-> totals, failedNote |-> TRUE ]
  /\ \/ /\ runRow' = [ runRow EXCEPT !.status = "FAILED", !.totals = totals ]
        /\ pc' = "done"
        /\ UNCHANGED faults
     \/ \* upsertRun throws: main() rejects, process.exit(1)
        /\ Len(faults) < MaxFaults
        /\ faults' = Append(faults, "upsertRun")
        /\ pc' = "crashed"
        /\ UNCHANGED runRow
  /\ UNCHANGED << runNo, config, feed, pos, queue, totals, topErrors, priceChanged,
                  seenProductCodes, fatalError, parserError, stopRequested, draining,
                  lastUpdateAt, usdToEurRate, lockPath, lockFile, store, storeAtStart,
                  dequeued, threw, sweepRan, lockAtStart, procs, table, jobs, sax, cart, crawl >>

\* lines 537-549
LoadSettings ==
  /\ pc = "settings"
  /\ \/ /\ \E value \in SettingsRates : usdToEurRate' = rateUsed(value)
        /\ pc' = "open"
        /\ UNCHANGED faults
     \/ \* findUnique throws outside every try: main() rejects, process.exit(1)
        /\ Len(faults) < MaxFaults
        /\ faults' = Append(faults, "settings")
        /\ pc' = "crashed"
        /\ UNCHANGED usdToEurRate
  /\ UNCHANGED << runNo, config, feed, pos, queue, totals, topErrors, priceChanged,
                  seenProductCodes, fatalError, parserError, stopRequested, draining,
                  lastUpdateAt, lockPath, lockFile, runRow, report, store,
                  storeAtStart, dequeued, threw, sweepRan, lockAtStart, procs, table, jobs, sax, cart, crawl >>

\* the catch block of lines 1278-1285, reached from pc
FeedProcessingFailed ==
  LET e == handleError("Feed processing failed", totals, topErrors) IN
  /\ fatalError' = TRUE
  /\ totals' = e.totals
  /\ topErrors' = e.topErrors
  /\ pc' = "sweep"

\* line 1084: getFeedStream
OpenFeed ==
  /\ pc = "open"
  /\ IF feed.fetchOk
     THEN /\ pc' = "read"
          /\ UNCHANGED << fatalError, totals, topErrors >>
     ELSE FeedProcessingFailed
  /\ UNCHANGED << runNo, config, feed, pos, queue, priceChanged, seenProductCodes,
                  parserError, stopRequested, draining, lastUpdateAt, usdToEurRate,
                  lockPath, lockFile, runRow, report, store, storeAtStart, dequeued,
                  threw, sweepRan, faults, lockAtStart, procs, table, jobs, sax, cart, crawl >>

\* parser.write(chunk): closed Urun elements are queued, a malformed byte
\* sequence goes to parser.onerror (lines 1112-1117) and parsing goes on
\* a parser whose closed products go to the front of the queue
RECURSIVE parserWrite_unshift(_, _)
parserWrite_unshift(chunk, P) ==
  IF chunk = <<>> THEN P
  ELSE parserWrite_unshift(Tail(chunk),
         IF Head(chunk).type = "Urun"
         THEN [ P EXCEPT !.queue = << Head(chunk).product >> \o @ ]
         ELSE [ P EXCEPT !.parserError = TRUE, !.fatalError = TRUE,
                         !.stopRequested = TRUE,
                         !.totals = handleError("XML parse error", P.totals, P.topErrors).totals,
                         !.topErrors = handleError("XML parse error", P.totals, P.topErrors).topErrors ])

RECURSIVE parserWrite(_, _)
parserWrite(chunk, P) ==
  IF chunk = <<>> THEN P
  ELSE LET item == Head(chunk)
           e == handleError("XML parse error", P.totals, P.topErrors)
       IN parserWrite(Tail(chunk),
            IF item.type = "Urun"
            THEN [ P EXCEPT !.queue = Append(@, item.product) ]
            ELSE [ P EXCEPT !.parserError = TRUE, !.fatalError = TRUE,
                            !.stopRequested = TRUE, !.totals = e.totals,
                            !.topErrors = e.topErrors ])

\* the last item of a chunk of at most n items that starts after pos: the
\* stream delivers nothing beyond a transport failure
RECURSIVE chunkEnd(_, _, _)
chunkEnd(items, from, n) ==
  IF n = 0 \/ from >= Len(items) \/ items[from + 1].type = "streamError"
  THEN from
  ELSE chunkEnd(items, from + 1, n - 1)

\* lines 1259-1271: one iteration of the read loop, up to the drain
ReadChunk ==
  /\ pc = "read"
  /\ pos < Len(feed.items)
  /\ feed.items[pos + 1].type # "streamError"
  /\ \E n \in 1..MaxChunk :
       LET end == chunkEnd(feed.items, pos, n)
           P == parserWrite(SubSeq(feed.items, pos + 1, end),
                            [ queue |-> queue, parserError |-> parserError,
                              fatalError |-> fatalError,
                              stopRequested |-> stopRequested,
                              totals |-> totals, topErrors |-> topErrors ])
           drain == Len(P.queue) >= PROGRESS_EVERY /\ ~draining
       IN /\ pos' = end
          /\ queue' = P.queue
          /\ parserError' = P.parserError
          /\ fatalError' = P.fatalError
          /\ totals' = P.totals
          /\ topErrors' = P.topErrors
          /\ draining' = (draining \/ drain)
          /\ stopRequested' = P.stopRequested
          /\ pc' = IF drain THEN "drainLoop"
                   ELSE IF P.parserError \/ P.stopRequested THEN "close"
                   ELSE "read"
  /\ UNCHANGED << runNo, config, feed, priceChanged, seenProductCodes, lastUpdateAt,
                  usdToEurRate, lockPath, lockFile, runRow, report, store,
                  storeAtStart, dequeued, threw, sweepRan, faults, lockAtStart, procs, table, jobs, sax, cart, crawl >>

\* the stream rejects: for await throws into the catch block
StreamError ==
  /\ pc = "read"
  /\ pos < Len(feed.items)
  /\ feed.items[pos + 1].type = "streamError"
  /\ pos' = pos + 1
  /\ FeedProcessingFailed
  /\ UNCHANGED << runNo, config, feed, queue, priceChanged, seenProductCodes,
                  parserError, stopRequested, draining, lastUpdateAt, usdToEurRate,
                  lockPath, lockFile, runRow, report, store, storeAtStart, dequeued,
                  threw, sweepRan, faults, lockAtStart, procs, table, jobs, sax, cart, crawl >>

\* the stream ends: the read loop is left
StreamEnd ==
  /\ pc = "read"
  /\ pos = Len(feed.items)
  /\ pc' = "close"
  /\ UNCHANGED << runNo, config, feed, pos, queue, totals, topErrors, priceChanged,
                  seenProductCodes, fatalError, parserError, stopRequested, draining,
                  lastUpdateAt, usdToEurRate, lockPath, lockFile, runRow, report,
                  store, storeAtStart, dequeued, threw, sweepRan, faults, lockAtStart, procs,
                  table, jobs, sax, cart, crawl >>

\* the product code whose store calls may throw
FaultCode == "A"

StoreFaults(product) ==
  IF Len(faults) < MaxFaults /\ product.id = FaultCode
  THEN {"none", "lookup", "write"}
  ELSE {"none"}

\* lines 1045-1081: one iteration of drainQueue's loop with result R, and
\* what follows the loop when this iteration ends it (lines 1266-1270, 1277)
DrainWith(R, fault, due, limitHit, over) ==
  /\ queue' = Tail(queue)
  /\ dequeued' = Append(dequeued, Head(queue))
  /\ priceChanged' = R.priceChanged
  /\ seenProductCodes' = R.seen
  /\ store' = R.store
  /\ threw' = IF R.threw THEN threw \cup {Len(dequeued) + 1} ELSE threw
  /\ lastUpdateAt' = IF due THEN R.totals.productsParsed ELSE lastUpdateAt
  /\ \/ \* the checkpoint, when due, succeeds
        /\ faults' = IF R.threw THEN Append(faults, fault) ELSE faults
        /\ totals' = R.totals
        /\ topErrors' = R.topErrors
        /\ runRow' = IF due
                     THEN [ runRow EXCEPT !.totals = R.totals, !.checkpoints = @ + 1 ]
                     ELSE runRow
        /\ stopRequested' = (stopRequested \/ limitHit
                               \/ (over /\ pc = "drainLoop" /\ parserError))
        /\ draining' = ~over
        /\ pc' = IF ~over THEN pc
                 ELSE IF pc = "drainEnd" THEN "sweep"
                 ELSE IF parserError \/ stopRequested \/ limitHit THEN "close"
                 ELSE "read"
        /\ UNCHANGED fatalError
     \/ \* updateRunProgress throws out of drainQueue into the catch block
        /\ due
        /\ ~R.threw
        /\ Len(faults) < MaxFaults
        /\ faults' = Append(faults, "checkpoint")
        /\ totals' = handleError("Feed processing failed", R.totals, R.topErrors).totals
        /\ topErrors' = handleError("Feed processing failed", R.totals,
                                    R.topErrors).topErrors
        /\ fatalError' = TRUE
        /\ pc' = "sweep"
        /\ UNCHANGED << runRow, stopRequested, draining >>

\* drainQueue without the limit check of lines 1071-1074
DrainResult_withoutLimit(R, fault) ==
  DrainWith(R, fault, R.totals.productsParsed - lastUpdateAt >= PROGRESS_EVERY, FALSE, Tail(queue) = <<>>)

\* drainQueue returning after its first record
DrainResult_oneRecord(R, fault) ==
  DrainWith(R, fault, R.totals.productsParsed - lastUpdateAt >= PROGRESS_EVERY, config.limit # 0 /\ R.totals.productsParsed >= config.limit, TRUE)

DrainResult(R, fault) ==
  DrainWith(R, fault,
            R.totals.productsParsed - lastUpdateAt >= PROGRESS_EVERY,
            config.limit # 0 /\ R.totals.productsParsed >= config.limit,
            (config.limit # 0 /\ R.totals.productsParsed >= config.limit)
              \/ Tail(queue) = <<>>)

DrainOne ==
  /\ pc \in {"drainLoop", "drainEnd"}
  /\ queue # <<>>
  /\ \E fault \in StoreFaults(Head(queue)) :
       DrainResult(drainStep(Head(queue),
                             [ totals |-> totals, topErrors |-> topErrors,
                               priceChanged |-> priceChanged,
                               seen |-> seenProductCodes, store |-> store,
                               threw |-> FALSE ],
                             config, usdToEurRate, fault),
                   fault)
  /\ UNCHANGED << runNo, config, feed, pos, parserError, usdToEurRate, lockPath,
                  lockFile, report, storeAtStart, sweepRan, lockAtStart, procs, table, jobs, sax, cart, crawl >>

\* lines 1273-1277: parser.close(), then the final drain. The strict parser
\* reports an unclosed document to parser.onerror when the read loop was left
\* with part of the feed unread.
Close ==
  /\ pc = "close"
  /\ \/ \* sax throws the recorded error again on close
        /\ parserError
        /\ FeedProcessingFailed
        /\ UNCHANGED << draining, parserError, stopRequested >>
     \/ /\ parserError \/ pos = Len(feed.items)
        /\ pc' = IF queue # <<>> /\ ~stopRequested THEN "drainEnd" ELSE "sweep"
        /\ draining' = (queue # <<>> /\ ~stopRequested)
        /\ UNCHANGED << fatalError, totals, topErrors, parserError, stopRequested >>
     \/ /\ ~parserError
        /\ pos < Len(feed.items)
        /\ parserError' = TRUE
        /\ fatalError' = TRUE
        /\ stopRequested' = TRUE
        /\ totals' = handleError("XML parse error", totals, topErrors).totals
        /\ topErrors' = handleError("XML parse error", totals, topErrors).topErrors
        /\ pc' = "sweep"
        /\ UNCHANGED draining
  /\ UNCHANGED << runNo, config, feed, pos, queue, priceChanged, seenProductCodes,
                  lastUpdateAt, usdToEurRate, lockPath,
                  lockFile, runRow, report, store, storeAtStart, dequeued, threw,
                  sweepRan, faults, lockAtStart, procs, table, jobs, sax, cart, crawl >>

\* the guard of line 1288
\* the sweep guard without the test of productsFound
sweepGuard_anyRun(cfg, t) == ~cfg.dryRun /\ ~cfg.parseOnly

sweepGuard(cfg, t) == ~cfg.dryRun /\ ~cfg.parseOnly /\ t.productsFound > 0

\* the catch block of lines 1314-1320 on totals t
SweepFailed(t, call) ==
  LET e == handleError("Failed to deactivate missing products", t, topErrors) IN
  /\ fatalError' = TRUE
  /\ totals' = e.totals
  /\ topErrors' = e.topErrors
  /\ faults' = Append(faults, call)
  /\ UNCHANGED << store, sweepRan >>

\* lines 1287-1320: the missing-product sweep
Sweep ==
  /\ pc = "sweep"
  /\ pc' = "finalize"
  /\ LET miss == missing(store, seenProductCodes)
         counted == [ totals EXCEPT !.deactivated = @ + Cardinality(miss) ]
     IN \/ /\ ~sweepGuard(config, totals)
           /\ UNCHANGED << store, totals, topErrors, fatalError, sweepRan, faults >>
        \/ /\ sweepGuard(config, totals)
           /\ miss = {}
           /\ UNCHANGED << store, totals, topErrors, fatalError, sweepRan, faults >>
        \/ /\ sweepGuard(config, totals)
           /\ miss # {}
           /\ totals' = counted
           /\ store' = hideMissing(store, seenProductCodes)
           /\ sweepRan' = TRUE
           /\ UNCHANGED << topErrors, fatalError, faults >>
        \/ \* findMany throws
           /\ sweepGuard(config, totals)
           /\ Len(faults) < MaxFaults
           /\ SweepFailed(totals, "findMany")
        \/ \* updateMany throws
           /\ sweepGuard(config, totals)
           /\ miss # {}
           /\ Len(faults) < MaxFaults
           /\ SweepFailed(counted, "updateMany")
  /\ UNCHANGED << runNo, config, feed, pos, queue, priceChanged, seenProductCodes,
                  parserError, stopRequested, draining, lastUpdateAt, usdToEurRate,
                  lockPath, lockFile, runRow, report, storeAtStart, dequeued, threw,
                  lockAtStart, procs, table, jobs, sax, cart, crawl >>

\* lines 1322-1365: the report, the terminal status, the final upsertRun
Finalize ==
  /\ pc = "finalize"
  /\ report' = [ written |-> TRUE, totals |-> totals, failedNote |-> FALSE ]
  /\ \/ /\ runRow' = [ runRow EXCEPT !.status = finalStatus(fatalError),
                                     !.totals = totals ]
        /\ pc' = "release"
        /\ UNCHANGED faults
     \/ \* upsertRun throws: main() rejects, process.exit(1)
        /\ Len(faults) < MaxFaults
        /\ faults' = Append(faults, "upsertRun")
        /\ pc' = "crashed"
        /\ UNCHANGED runRow
  /\ UNCHANGED << runNo, config, feed, pos, queue, totals, topErrors, priceChanged,
                  seenProductCodes, fatalError, parserError, stopRequested, draining,
                  lastUpdateAt, usdToEurRate, lockPath, lockFile, store, storeAtStart,
                  dequeued, threw, sweepRan, lockAtStart, procs, table, jobs, sax, cart, crawl >>

\* lines 1367-1373: fs.unlinkSync(lockPath)
ReleaseLock ==
  /\ pc = "release"
  /\ lockFile' = NoLock
  /\ pc' = "done"
  /\ UNCHANGED << runNo, config, feed, pos, queue, totals, topErrors, priceChanged,
                  seenProductCodes, fatalError, parserError, stopRequested, draining,
                  lastUpdateAt, usdToEurRate, lockPath, runRow, report, store,
                  storeAtStart, dequeued, threw, sweepRan, faults, lockAtStart, procs, table, jobs, sax, cart, crawl >>

NoProcs == <<>>

NoTable == [ done |-> FALSE ]

NoJobs == <<>>

\* main() has not started: the locals of lines 405-417, 1039-1043
EngineAtRest ==
  /\ pc = "idle"
  /\ runNo = 0
  /\ pos = 0
  /\ queue = <<>>
  /\ totals = ZeroTotals
  /\ topErrors = <<>>
  /\ priceChanged = <<>>
  /\ seenProductCodes = {}
  /\ fatalError = FALSE
  /\ parserError = FALSE
  /\ stopRequested = FALSE
  /\ draining = FALSE
  /\ lastUpdateAt = 0
  /\ usdToEurRate = 100
  /\ lockPath = ""
  /\ runRow = NoRun
  /\ report = NoReport
  /\ storeAtStart = store
  /\ dequeued = <<>>
  /\ threw = {}
  /\ sweepRan = FALSE
  /\ faults = <<>>
  /\ lockAtStart = lockFile

Init ==
  /\ config \in Configs
  /\ feed \in Feeds
  /\ store \in InitialStores
  /\ lockFile \in InitialLocks
  /\ EngineAtRest
  /\ procs = NoProcs
  /\ table = NoTable
  /\ jobs = NoJobs
  /\ sax = NoSax
  /\ cart = NoCart
  /\ crawl = NoCrawl

Next ==
  \/ StartRun
  \/ EnsureLock
  \/ LockContention
  \/ LoadSettings
  \/ OpenFeed
  \/ ReadChunk
  \/ StreamError
  \/ StreamEnd
  \/ DrainOne
  \/ Close
  \/ Sweep
  \/ Finalize
  \/ ReleaseLock

Spec == Init /\ [][Next]_vars

\* ------------------------------------------------------------------------
\* SpecTable: processProduct's derivation applied to one feed record
\* ------------------------------------------------------------------------

MaxVariants == 2

TableVariants ==
  { [ active |-> a, stockStatus |-> st, price |-> pr, discountedPrice |-> "",
      size |-> sz ] :
      a \in {"true", "false"}, st \in {"available", "0"},
      pr \in {"100", "0.01", ""}, sz \in {"80x150 cm", "Özel Ölçü", ""} }
    \cup {VPriced, VLarge, VTie}

TableProducts ==
  { [ id |-> "A", active |-> a, images |-> <<>>, variants |-> vs ] :
      a \in {"true", "false"}, vs \in SeqsUpTo(TableVariants, MaxVariants) }

\* rates the guard of lines 540-546 lets through
\* settings?.usdToEurRate ?? Number(env) (hundredths): missing, NaN, Infinity,
\* zero, negative, below, at and above the limits of the accepted range
TableRates == {NoNum, NotANumber, PositiveInfinity, 0, 0 - 50, 19, 20, 200, 201}

\* what findUnique returns for the record: nothing, or a stored row
TableRows == {NoRow, OldA}

\* stored rows that the record itself accounts for: the row an earlier run
\* wrote for the same record, that row owned by another source, flagged new,
\* or with its sizes in the opposite order
MirrorRows(row) ==
  { row, [ row EXCEPT !.source = "OTHER" ], [ row EXCEPT !.isNew = TRUE ],
    [ row EXCEPT !.sizes = [ i \in 1..Len(@) |-> @[Len(@) + 1 - i] ] ] }

\* the engine's inputs when no run is modelled
NoInput ==
  /\ config = [ dryRun |-> FALSE, parseOnly |-> FALSE, limit |-> 0 ]
  /\ feed = [ fetchOk |-> TRUE, items |-> <<>> ]
  /\ store = [ c \in Codes |-> NoRow ]

InitTable ==
  /\ NoInput
  /\ lockFile = NoLock
  /\ EngineAtRest
  /\ procs = NoProcs
  /\ jobs = NoJobs
  /\ sax = NoSax
  /\ cart = NoCart
  /\ crawl = NoCrawl
  /\ \E product \in TableProducts, value \in TableRates :
       \E existing \in TableRows \cup MirrorRows(updateData(derive(product, rateUsed(value)), NoRow)) :
         table = [ done |-> FALSE, product |-> product,
                   configured |-> value, rate |-> rateUsed(value),
                   existing |-> existing,
                   result |-> derive(ProdA2, rateUsed(value)),
                   row |-> existing,
                   counted |-> ZeroTotals ]

\* lines 583-850 on the record drawn: the derived values and the row
\* handed to prisma.product.update / create
Evaluate ==
  /\ ~table.done
  /\ table' = [ table EXCEPT !.done = TRUE,
                             !.result = derive(table.product, table.rate),
                             !.row = updateData(derive(table.product, table.rate),
                                                table.existing),
                             !.counted = countClass(ZeroTotals, table.existing,
                                                    updateData(derive(table.product, table.rate),
                                                               table.existing)) ]
  /\ UNCHANGED << engineVars, procs, jobs, sax, cart, crawl >>

NextTable == Evaluate

SpecTable == InitTable /\ [][NextTable]_vars

\* ------------------------------------------------------------------------
\* SpecLock: engine processes started over one report directory, ensureLock
\* taken file-system call by file-system call
\* ------------------------------------------------------------------------

MaxProcs == 2

Procs == 1..MaxProcs

\* process.kill(pid, 0) succeeds: the foreign live process, or an engine
\* process that has not exited
pidRunning(pid) ==
  \/ pid = LivePid
  \/ \E p \in Procs : EnginePid(p) = pid /\ procs[p].pc # "exited"

\* every variable SpecLock leaves alone
lockFrame ==
  << pc, runNo, config, feed, pos, queue, totals, topErrors, priceChanged,
     seenProductCodes, fatalError, parserError, stopRequested, draining,
     lastUpdateAt, usdToEurRate, lockPath, runRow, report, store, storeAtStart,
     dequeued, threw, sweepRan, lockAtStart, faults, table, jobs, sax, cart, crawl >>

InitLock ==
  /\ NoInput
  /\ lockFile \in InitialLocks
  /\ EngineAtRest
  /\ table = NoTable
  /\ jobs = NoJobs
  /\ sax = NoSax
  /\ cart = NoCart
  /\ crawl = NoCrawl
  /\ procs = [ p \in Procs |-> [ pc |-> "exists", lockPath |-> "", data |-> 0 ] ]

\* line 142: fs.existsSync(lockPath)
LockExists(p) ==
  /\ procs[p].pc = "exists"
  /\ procs' = [ procs EXCEPT ![p].pc = IF lockFile.exists THEN "read" ELSE "write" ]
  /\ UNCHANGED << lockFile, lockFrame >>

\* lines 144-145: read and parse the marker; a marker removed meanwhile
\* throws into the catch of line 149
LockRead(p) ==
  /\ procs[p].pc = "read"
  /\ procs' = IF lockFile.exists
              THEN [ procs EXCEPT ![p].pc = "probe", ![p].data = lockFile.pid ]
              ELSE [ procs EXCEPT ![p].pc = "unlink" ]
  /\ UNCHANGED << lockFile, lockFrame >>

\* lines 146-148: data?.pid && isProcessRunning(data.pid)
LockProbe(p) ==
  /\ procs[p].pc = "probe"
  /\ procs' = [ procs EXCEPT ![p].pc =
                  IF procs[p].data # 0 /\ pidRunning(procs[p].data)
                  THEN "contended" ELSE "unlink" ]
  /\ UNCHANGED << lockFile, lockFrame >>

\* lines 153-158: remove the stale marker, errors ignored
LockUnlink(p) ==
  /\ procs[p].pc = "unlink"
  /\ lockFile' = NoLock
  /\ procs' = [ procs EXCEPT ![p].pc = "write" ]
  /\ UNCHANGED lockFrame

\* lines 160-164: write the marker and return its path
LockWrite(p) ==
  /\ procs[p].pc = "write"
  /\ lockFile' = [ exists |-> TRUE, pid |-> EnginePid(p) ]
  /\ procs' = [ procs EXCEPT ![p].pc = "processing", ![p].lockPath = ".lock" ]
  /\ UNCHANGED lockFrame

\* lines 509-535: ensureLock returned '', the run ends
ProcContended(p) ==
  /\ procs[p].pc = "contended"
  /\ procs' = [ procs EXCEPT ![p].pc = "exited" ]
  /\ UNCHANGED << lockFile, lockFrame >>

\* lines 537-1365: the run, up to the removal of the marker; or main()
\* rejects on the way and the process exits
ProcRun(p) ==
  /\ procs[p].pc = "processing"
  /\ \/ procs' = [ procs EXCEPT ![p].pc = "release" ]
     \/ procs' = [ procs EXCEPT ![p].pc = "exited" ]
  /\ UNCHANGED << lockFile, lockFrame >>

\* lines 1367-1373: fs.unlinkSync(lockPath), errors ignored
ProcRelease(p) ==
  /\ procs[p].pc = "release"
  /\ lockFile' = NoLock
  /\ procs' = [ procs EXCEPT ![p].pc = "exited" ]
  /\ UNCHANGED lockFrame

NextLock ==
  \/ \E p \in Procs : LockExists(p)
  \/ \E p \in Procs : LockRead(p)
  \/ \E p \in Procs : LockProbe(p)
  \/ \E p \in Procs : LockUnlink(p)
  \/ \E p \in Procs : LockWrite(p)
  \/ \E p \in Procs : ProcContended(p)
  \/ \E p \in Procs : ProcRun(p)
  \/ \E p \in Procs : ProcRelease(p)

SpecLock == InitLock /\ [][NextLock]_vars

\* the processes between ensureLock's return of a path and their removal of
\* the marker
Processing == { p \in Procs : procs[p].pc \in {"processing", "release"} }

\* C1: at most one engine process at a time is between ensureLock returning
\* a non-empty lock path and its end-of-run removal of the lock marker.
C1_MutualExclusion == Cardinality(Processing) <= 1

\* ------------------------------------------------------------------------
\* C10: the visibility decision table
\* ------------------------------------------------------------------------

\* the normalized variants of the record drawn
TableData == MapVariants(table.product.variants, table.rate)

AllVariants == 1..Len(table.product.variants)

\* the variants the feed marks active / those that also carry a size label
ActiveVariants == { i \in AllVariants : TableData[i].isActive }

ActiveSized == { i \in ActiveVariants : TableData[i].sizeLabel # "" }

PositivePriced(data, among) ==
  { i \in among : ~data[i].isSpecialSize /\ data[i].priceEur # NoNum
                  /\ data[i].priceEur > 0 }

MinPriceEur(data, priced) ==
  CHOOSE m \in { data[i].priceEur : i \in priced } :
    \A i \in priced : m <= data[i].priceEur

\* the row of the decision table for a product whose variants `among` count
TableRow(active, data, among, priced, anyInStock, anySpecial) ==
  IF ~active THEN << "", FALSE, FALSE >>
  ELSE IF priced # {} THEN << toFixed2(MinPriceEur(data, priced)), anyInStock, FALSE >>
  ELSE IF anyInStock /\ anySpecial THEN << "0.00", TRUE, TRUE >>
  ELSE << "", anyInStock, FALSE >>

Expected(among) ==
  TableRow(normalizeFlag(table.product.active), TableData, among,
           PositivePriced(TableData, among),
           \E i \in among : TableData[i].inStock,
           \E i \in among : TableData[i].isSpecialSize)

Computed == << table.result.newPrice, table.result.inStock, table.result.priceOnRequest >>

\* the product is hidden exactly when it is inactive or has neither a
\* positive price nor price-on-request status
HiddenExactly(among) ==
  (table.result.newPrice = "")
    <=> ( \/ ~normalizeFlag(table.product.active)
          \/ /\ PositivePriced(TableData, among) = {}
             /\ ~table.result.priceOnRequest )

\* C10 as stated: the computed (price, inStock, priceOnRequest) follows the
\* decision table over the product's active variants, and the price is empty
\* exactly when the product is inactive, or has no priced active variant and
\* is not price on request.
C10_Original ==
  table.done => (Computed = Expected(ActiveVariants) /\ HiddenExactly(ActiveVariants))

\* C10 amended: the computed (price, inStock, priceOnRequest) follows the
\* decision table over the product's variants that are active and carry a
\* size label; an active variant without a size label counts for nothing.
C10_DecisionTable ==
  table.done => (Computed = Expected(ActiveSized) /\ HiddenExactly(ActiveSized))

\* a price-on-request product that also carries an active, priced variant
\* without a size label
C10_Witness ==
  /\ table.done
  /\ table.result.priceOnRequest
  /\ table.result.newPrice = "0.00"
  /\ \E i \in ActiveVariants : TableData[i].sizeLabel = "" /\ TableData[i].priceEur > 0

\* ------------------------------------------------------------------------
\* Spec: the run lifecycle
\* ------------------------------------------------------------------------

\* the engine process of the current run has ended
Terminated == runNo >= 1 /\ pc \in {"done", "crashed"}

Failed(call) == \E i \in 1..Len(faults) : faults[i] = call

\* the run started while the marker named a live process
ContendedStart == runNo >= 1 /\ lockAtStart.exists /\ lockAtStart.pid = LivePid

\* C2: a run started while the lock marker records the pid of a live process
\* finalizes as FAILED with every total 0, reads no feed, reconciles no
\* record, runs no sweep, changes no product and leaves the marker as it was.
C2_ContentionNoEffects ==
  (ContendedStart /\ pc # "lock") =>
    /\ pc \in {"contended", "done", "crashed"}
    /\ lockPath = ""
    /\ pos = 0
    /\ dequeued = <<>>
    /\ seenProductCodes = {}
    /\ ~sweepRan
    /\ store = storeAtStart
    /\ lockFile = lockAtStart
    /\ totals = ZeroTotals
    /\ pc = "done" => /\ runRow.status = "FAILED"
                      /\ runRow.totals = ZeroTotals
                      /\ report.written
                      /\ report.totals = ZeroTotals

\* a contended run has finalized although the feed had records and the
\* catalog a visible product the feed does not carry
C2_Witness ==
  /\ ContendedStart
  /\ pc = "done"
  /\ feed.items # <<>>
  /\ store["C"].price # ""
  /\ runRow.status = "FAILED"

\* C3: every run that acquired the lock has removed the lock marker by the
\* time its process ends, whatever the outcome.
C3_LockAlwaysReleased == (Terminated /\ lockPath # "") => ~lockFile.exists

\* C4: every run that set its Run record to RUNNING has, by the time its
\* process ends, written the final report and a terminal Run status (the
\* runs whose Run-persistence call itself throws set aside).
C4_AlwaysFinalized ==
  (Terminated /\ ~Failed("upsertRun")) =>
    /\ report.written
    /\ runRow.status \in {"SUCCESS", "FAILED", "NEED_AUTH"}

\* the feed could not be fetched, or its transport failed part-way
FeedFailure ==
  lockPath # "" /\ ( \/ ~feed.fetchOk
                     \/ pos > 0 /\ feed.items[pos].type = "streamError" )

\* C5: the terminal status is FAILED if and only if a parse error, a feed
\* fetch failure or lock contention occurred; record errors and a failing
\* sweep leave it SUCCESS (runs with a failing progress checkpoint set aside).
C5_StatusClassification ==
  (runNo >= 1 /\ pc \in {"release", "done"} /\ ~Failed("checkpoint")) =>
    /\ runRow.status \in {"SUCCESS", "FAILED"}
    /\ (runRow.status = "FAILED") <=> (parserError \/ FeedFailure \/ lockPath = "")

NumRecords == Cardinality({ i \in 1..Len(feed.items) : feed.items[i].type = "Urun" })

\* the limit stopped the run before every record of the feed was dequeued
LimitStopped ==
  /\ config.limit # 0
  /\ totals.productsParsed >= config.limit
  /\ Len(dequeued) < NumRecords

\* the sweep of the current run is behind
AfterSweep == runNo >= 1 /\ lockPath # "" /\ pc \in {"finalize", "release", "done", "crashed"}

Untouched(c) == store[c] = storeAtStart[c]

\* C6: in a run stopped by limit, dry-run, parse-only, or whose feed was not
\* read to its end, no product is hidden for being absent from the codes
\* encountered (every store call answering).
C6_SweepOnlyAfterFullPass ==
  (AfterSweep /\ faults = <<>>
     /\ (config.dryRun \/ config.parseOnly \/ LimitStopped
                    \/ parserError \/ FeedFailure)) =>
    \A c \in Codes \ seenProductCodes : Untouched(c)

\* the feed was fetched, read to its end without error, and every record
\* dequeued, with persistence enabled and every store call answering
FullPass ==
  /\ AfterSweep
  /\ ~config.dryRun
  /\ ~config.parseOnly
  /\ feed.fetchOk
  /\ \A i \in 1..Len(feed.items) : feed.items[i].type = "Urun"
  /\ Len(dequeued) = NumRecords
  /\ faults = <<>>

\* the products the sweep is to hide
MissingAtStart ==
  { c \in Codes \ seenProductCodes : /\ storeAtStart[c].exists
                                     /\ storeAtStart[c].source = "BMHOME"
                                     /\ storeAtStart[c].price # "" }

Hidden(row) ==
  row.price = "" /\ ~row.inStock /\ row.sizes = <<>> /\ row.defaultSize = Null

\* records reconciled as inactive products
InactiveReconciled ==
  Cardinality({ i \in 1..Len(dequeued) :
                  /\ dequeued[i].id # ""
                  /\ \A j \in 1..(i - 1) : dequeued[j].id # dequeued[i].id
                  /\ ~normalizeFlag(dequeued[i].active) })

SweepDone ==
  /\ \A c \in MissingAtStart : Hidden(store[c])
  /\ totals.deactivated = InactiveReconciled + Cardinality(MissingAtStart)

SkippedIn(k) ==
  Cardinality({ i \in 1..k : \/ dequeued[i].id = ""
                             \/ \E j \in 1..(i - 1) : dequeued[j].id = dequeued[i].id })

\* records among the first k dequeued whose reconciliation threw
ThrewIn(k) == Cardinality({ i \in threw : i <= k })

Classified(t) == t.created + t.updated + t.unchanged

\* the second of two runs with persistence enabled has ended SUCCESS, no
\* store call having failed in either
SecondRun ==
  /\ runNo = 2
  /\ pc = "done"
  /\ lockPath # ""
  /\ ~config.dryRun
  /\ ~config.parseOnly
  /\ faults = <<>>
  /\ runRow.status = "SUCCESS"

SameCatalog ==
  \A c \in Codes :
    /\ store[c].exists = storeAtStart[c].exists
    /\ store[c].price = storeAtStart[c].price
    /\ store[c].sizes = storeAtStart[c].sizes
    /\ store[c].defaultSize = storeAtStart[c].defaultSize
    /\ store[c].images = storeAtStart[c].images
    /\ store[c].inStock = storeAtStart[c].inStock

DifferenceIsSkipped(t) ==
  /\ Classified(t) <= t.productsParsed
  /\ t.productsParsed - Classified(t) = SkippedIn(t.productsParsed)

DifferenceIsSkippedOrThrew(t) ==
  /\ Classified(t) <= t.productsParsed
  /\ t.productsParsed - Classified(t) = SkippedIn(t.productsParsed) + ThrewIn(t.productsParsed)

\* C9 as stated: at every checkpoint and at finalization created + updated +
\* unchanged <= productsParsed and the difference is the number of records
\* skipped for a missing or duplicate id.
C9_Original ==
  /\ DifferenceIsSkipped(runRow.totals)
  /\ DifferenceIsSkipped(report.totals)

\* C9 amended: the difference is the number of records skipped for a missing
\* or duplicate id plus the number of records whose reconciliation threw.
C9_TotalsRelation ==
  /\ DifferenceIsSkippedOrThrew(runRow.totals)
  /\ DifferenceIsSkippedOrThrew(report.totals)

\* a checkpoint has persisted totals that include a record that threw
C9_Witness ==
  /\ runRow.checkpoints > 0
  /\ runRow.status = "RUNNING"
  /\ ThrewIn(runRow.totals.productsParsed) > 0

\* ------------------------------------------------------------------------
\* Spec: the catalog rows the engine leaves
\* ------------------------------------------------------------------------

\* the stored products of this feed source
FeedProducts == { c \in Codes : store[c].exists /\ store[c].source = "BMHOME" }

\* C11: in every catalog state reached through engine runs, a product of
\* this feed source has price "0.00" if and only if its stored
\* priceOnRequest flag is true.
C11_SentinelIffFlag ==
  \A c \in FeedProducts : (store[c].price = "0.00") <=> store[c].priceOnRequest

\* ------------------------------------------------------------------------
\* SpecTable: the sizes written for a record
\* ------------------------------------------------------------------------

\* the first active sized variant that carries the label
FirstSeen(label) ==
  CHOOSE i \in ActiveSized :
    /\ TableData[i].sizeLabel = label
    /\ \A j \in ActiveSized : TableData[j].sizeLabel = label => i <= j

\* out lists the labels of the active sized variants, each once, in the
\* order of their first occurrence
DistinctInOrder(out) ==
  /\ \A k \in 1..Len(out) : \E i \in ActiveSized : TableData[i].sizeLabel = out[k]
  /\ \A i \in ActiveSized : \E k \in 1..Len(out) : out[k] = TableData[i].sizeLabel
  /\ \A k, l \in 1..Len(out) : k < l => FirstSeen(out[k]) < FirstSeen(out[l])

\* C12: the sizes persisted for a reconciled product are the distinct
\* canonical size labels of the record's active sized variants in first-seen
\* order when there is at least one, and otherwise exactly the sizes
\* persisted before.
C12_SizesNeverWiped ==
  table.done =>
    IF ActiveSized # {}
    THEN DistinctInOrder(table.row.sizes)
    ELSE table.row.sizes = table.existing.sizes

\* a record with variants, none of them active and sized, met a stored row
\* with sizes, and the sizes were kept
C12_Witness ==
  /\ table.done
  /\ Len(table.product.variants) > 0
  /\ ActiveSized = {}
  /\ table.existing.sizes # <<>>
  /\ table.row.sizes = table.existing.sizes

\* ------------------------------------------------------------------------
\* SpecJobs: one feed product under sync runs and runs of the translation
\* job (scripts/bmhome-translate-ru.ts), one run after the other
\* ------------------------------------------------------------------------

MaxJobs == 4

CareHtml == "<p>Wool</p><p><b>CARE</b></p><ul><li>Dry clean</li></ul>"

\* cheerio's text of the HTML texts of the model, white space collapsed
htmlToText(html) ==
  CASE html = "<p>Soft rug</p>" -> "Soft rug"
    [] html = "<p>Wool</p>" -> "Wool"
    [] html = CareHtml -> "WoolCAREDry clean"
    [] OTHER -> ""

\* the <li> texts of the first <ul> after the paragraph whose <b> heading
\* names CARE / WARRANTY, and after the one naming TECHNICAL
extractFeatureLists(html) ==
  [ care |-> IF html = CareHtml THEN << "Dry clean" >> ELSE <<>>,
    technical |-> <<>> ]

ToUpperCase(key) ==
  CASE key = "Color" -> "COLOR"
    [] key = "Collection" -> "COLLECTION"
    [] key = "Style" -> "STYLE"
    [] OTHER -> key

\* detailMap.get(key): the value of the last technical detail with the key
detailValue(details, key) ==
  LET at == { i \in 1..Len(details) : ToUpperCase(details[i].key) = key }
  IN IF at = {} THEN ""
     ELSE details[CHOOSE i \in at : \A j \in at : j <= i].value

\* [name] when there is a name, [] otherwise
nameList(name) == IF name = "" THEN <<>> ELSE << name >>

\* colorName, styleName and collectionName of processProduct
taxonomyOf(product) ==
  [ colors |-> nameList(IF product.category # "" THEN product.category
                        ELSE detailValue(product.technicalDetails, "COLOR")),
    collections |-> nameList(detailValue(product.technicalDetails, "COLLECTION")),
    styles |-> nameList(detailValue(product.technicalDetails, "STYLE")) ]

\* shortText || htmlToText(descriptionHtml) of processProduct
descriptionTextOf(product) ==
  IF htmlToText(product.shortHtml) # "" THEN htmlToText(product.shortHtml)
  ELSE htmlToText(product.descriptionHtml)

\* htmlToText(descriptionHtml) || descriptionText of processProduct
featureHeadOf(product) ==
  IF htmlToText(product.descriptionHtml) # "" THEN htmlToText(product.descriptionHtml)
  ELSE descriptionTextOf(product)

\* A digest is modelled by the payload it is taken of, field by field in the
\* order of the JSON text: two digests are equal exactly when the payloads
\* are.
hashPayload(shortHtml, descriptionHtml, details, featureHead, lists, taxonomy) ==
  << shortHtml, descriptionHtml, details, featureHead, lists.care, lists.technical,
     taxonomy.colors, taxonomy.collections, taxonomy.styles >>

\* the sync engine's digest of a feed record
buildBmhomeTranslationHash(product) ==
  hashPayload(product.shortHtml, product.descriptionHtml, product.technicalDetails,
              featureHeadOf(product), extractFeatureLists(product.descriptionHtml),
              taxonomyOf(product))

\* the translation job's digest of a stored record: three fields
buildBmhomeTranslationHash_translate(bmhome) ==
  << bmhome.shortHtml, bmhome.descriptionHtml, bmhome.technicalDetails >>

NoHash == <<>>

ScopeNames == { "descriptions", "technicalDetails", "lists", "taxonomy" }

\* translation.scopes: each flag is "true", "false" or "absent"
ScopesAll(flag) == [ s \in ScopeNames |-> flag ]

\* no catalog row for the product
NoJobRow ==
  [ exists |-> FALSE, shortHtml |-> "", descriptionHtml |-> "", technicalDetails |-> <<>>,
    translation |-> [ enHash |-> NoHash, mode |-> "", scopes |-> ScopesAll("absent") ], ruDescription |-> "",
    ruFeature |-> "", ruColor |-> "", ruCollection |-> "", ruStyle |-> "" ]

\* the feed record of the product, and the same record with one hashed
\* input changed
JobBase ==
  [ shortHtml |-> "<p>Soft rug</p>", descriptionHtml |-> "<p>Wool</p>",
    technicalDetails |-> <<>>, category |-> "Beige" ]

JobProducts ==
  { JobBase,
    [ JobBase EXCEPT !.shortHtml = "" ],
    [ JobBase EXCEPT !.descriptionHtml = CareHtml ],
    [ JobBase EXCEPT !.technicalDetails = << [ key |-> "Collection", value |-> "Loft" ] >> ],
    [ JobBase EXCEPT !.category = "Grey" ],
    [ JobBase EXCEPT !.technicalDetails = << [ key |-> "Collection", value |-> "Loft" ],
                                             [ key |-> "Style", value |-> "Modern" ] >> ] }

\* the name of a localized taxonomy row; "" when the product has no row
nameOf(names) == IF names = <<>> THEN "" ELSE names[1]

\* the translation service's answer for a text
translateText(text) == IF text = "" THEN "" ELSE "[ru] " \o text

\* the row as the scoped translation run leaves it for JobBase: the digest
\* of the sync engine's payload, every scope done
ScopedRow ==
  [ exists |-> TRUE, shortHtml |-> JobBase.shortHtml,
    descriptionHtml |-> JobBase.descriptionHtml,
    technicalDetails |-> JobBase.technicalDetails,
    translation |-> [ enHash |-> buildBmhomeTranslationHash(JobBase), mode |-> "translate",
                      scopes |-> ScopesAll("true") ],
    ruDescription |-> translateText(descriptionTextOf(JobBase)),
    ruFeature |-> translateText(featureHeadOf(JobBase)),
    ruColor |-> translateText(nameOf(taxonomyOf(JobBase).colors)),
    ruCollection |-> translateText(nameOf(taxonomyOf(JobBase).collections)),
    ruStyle |-> translateText(nameOf(taxonomyOf(JobBase).styles)) ]

\* hashChanged and nextTranslation of processProduct
nextTranslation(existing, current) ==
  IF existing.enHash = NoHash \/ existing.enHash # current
  THEN [ enHash |-> current, mode |-> "sync", scopes |-> ScopesAll("false") ]
  ELSE [ existing EXCEPT !.enHash = current ]

\* shouldUpdateRu: the ru description is replaced by the English text
shouldUpdateRu(row, current) ==
  \/ row.translation.enHash = NoHash
  \/ row.translation.enHash # current
  \/ ~row.exists

\* shouldUpdateTaxonomyRu: the ru color, collection and style rows are
\* deleted and written again from the feed's names
shouldUpdateTaxonomyRu(row, current) ==
  \/ row.translation.enHash = NoHash
  \/ row.translation.enHash # current
  \/ row.ruColor = ""
  \/ row.ruCollection = ""
  \/ row.ruStyle = ""

\* what prisma.product.update / create stores of the record's content
syncRow(row, product, current) ==
  [ exists |-> TRUE, shortHtml |-> product.shortHtml,
    descriptionHtml |-> product.descriptionHtml,
    technicalDetails |-> product.technicalDetails,
    translation |-> nextTranslation(row.translation, current),
    ruDescription |-> IF shouldUpdateRu(row, current) THEN descriptionTextOf(product)
                      ELSE row.ruDescription,
    ruFeature |-> IF shouldUpdateRu(row, current) THEN featureHeadOf(product)
                  ELSE row.ruFeature,
    ruColor |-> IF shouldUpdateTaxonomyRu(row, current)
                THEN nameOf(taxonomyOf(product).colors) ELSE row.ruColor,
    ruCollection |-> IF shouldUpdateTaxonomyRu(row, current)
                     THEN nameOf(taxonomyOf(product).collections) ELSE row.ruCollection,
    ruStyle |-> IF shouldUpdateTaxonomyRu(row, current)
                THEN nameOf(taxonomyOf(product).styles) ELSE row.ruStyle ]

\* processProduct on the record, as far as the translation record goes
syncRecord(row, product, dryRun) ==
  IF dryRun THEN row ELSE syncRow(row, product, buildBmhomeTranslationHash(product))

\* featureHead of the translation job: shortText || descriptionText
translateHeadOf(shortHtml, descriptionHtml) ==
  IF htmlToText(IF shortHtml # "" THEN shortHtml ELSE descriptionHtml) # ""
  THEN htmlToText(IF shortHtml # "" THEN shortHtml ELSE descriptionHtml)
  ELSE htmlToText(IF descriptionHtml # "" THEN descriptionHtml ELSE shortHtml)

\* the row the translation job's transaction leaves
translateRow(row, current, endpoint) ==
  [ row EXCEPT
      !.translation = [ enHash |-> current,
                        mode |-> IF endpoint THEN "libretranslate" ELSE "glossary",
                        scopes |-> ScopesAll("absent") ],
      !.ruDescription = IF endpoint
                        THEN translateText(htmlToText(IF row.descriptionHtml # ""
                                                      THEN row.descriptionHtml
                                                      ELSE row.shortHtml))
                        ELSE htmlToText(IF row.descriptionHtml # ""
                                        THEN row.descriptionHtml ELSE row.shortHtml),
      !.ruFeature = IF endpoint
                    THEN translateText(translateHeadOf(row.shortHtml, row.descriptionHtml))
                    ELSE translateHeadOf(row.shortHtml, row.descriptionHtml) ]

\* the translation job's loop body: skipped when existingHash is set and
\* equals currentHash
translateRecord(row, current, endpoint) ==
  IF row.translation.enHash # NoHash /\ row.translation.enHash = current
  THEN row
  ELSE translateRow(row, current, endpoint)

InitJobs ==
  /\ NoInput
  /\ lockFile = NoLock
  /\ EngineAtRest
  /\ procs = NoProcs
  /\ table = NoTable
  /\ sax = NoSax
  /\ cart = NoCart
  /\ crawl = NoCrawl
  /\ \E row \in { NoJobRow, ScopedRow } : jobs = [ row |-> row, log |-> <<>> ]

\* one run of the sync engine over a feed that carries the product
SyncJob ==
  /\ Len(jobs.log) < MaxJobs
  /\ \E product \in JobProducts, dryRun \in BOOLEAN :
       jobs' = [ row |-> syncRecord(jobs.row, product, dryRun),
                 log |-> Append(jobs.log, [ job |-> "sync", product |-> product,
                                            dryRun |-> dryRun, before |-> jobs.row ]) ]
  /\ UNCHANGED << engineVars, procs, table, sax, cart, crawl >>

\* one run of the translation job; the product is among the rows it finds
TranslateJob ==
  /\ Len(jobs.log) < MaxJobs
  /\ jobs.row.exists
  /\ \E endpoint \in BOOLEAN :
       jobs' = [ row |-> translateRecord(jobs.row,
                                         buildBmhomeTranslationHash_translate(jobs.row),
                                         endpoint),
                 log |-> Append(jobs.log, [ job |-> "translate", before |-> jobs.row ]) ]
  /\ UNCHANGED << engineVars, procs, table, sax, cart, crawl >>

NextJobs == SyncJob \/ TranslateJob

SpecJobs == InitJobs /\ [][NextJobs]_vars

\* the row a logged run left
After(i) == IF i = Len(jobs.log) THEN jobs.row ELSE jobs.log[i + 1].before

\* the logged sync runs that wrote
WritingSyncs == { i \in 1..Len(jobs.log) : jobs.log[i].job = "sync" /\ ~jobs.log[i].dryRun }

\* j is the writing sync run before the sync run i
PreviousSync(j, i) ==
  /\ j \in WritingSyncs
  /\ j < i
  /\ \A k \in WritingSyncs : k < i => k <= j

SameTranslation(a, b) ==
  /\ a.translation.enHash = b.translation.enHash
  /\ a.translation.scopes = b.translation.scopes

\* C13: a sync run over a product whose hashed inputs are those of the
\* previous sync run leaves the stored content hash and every per-scope
\* flag as they were before the run.
C13_HashStable ==
  \A i \in 1..Len(jobs.log) : \A j \in 1..Len(jobs.log) :
    ( /\ jobs.log[i].job = "sync"
      /\ PreviousSync(j, i)
      /\ buildBmhomeTranslationHash(jobs.log[i].product)
           = buildBmhomeTranslationHash(jobs.log[j].product) )
    => SameTranslation(After(i), jobs.log[i].before)

\* the hashed inputs of two feed records differ
InputsDiffer(p, q) == buildBmhomeTranslationHash(p) # buildBmhomeTranslationHash(q)

\* C14: a writing sync run over a product with no stored hash, or with a
\* hashed input that differs from the previous sync run, stores the new hash
\* and sets every per-scope flag to false; and between a sync run and the
\* previous one the stored hash changes if and only if a hashed input
\* changed.
C14_HashChangesIffInputChanged ==
  \A i \in WritingSyncs :
    /\ ( \/ jobs.log[i].before.translation.enHash = NoHash
         \/ \E j \in WritingSyncs :
              PreviousSync(j, i) /\ InputsDiffer(jobs.log[i].product, jobs.log[j].product) )
       => /\ After(i).translation.enHash = buildBmhomeTranslationHash(jobs.log[i].product)
          /\ After(i).translation.scopes = ScopesAll("false")
    /\ \A j \in WritingSyncs :
         PreviousSync(j, i)
         => ( After(i).translation.enHash # jobs.log[i].before.translation.enHash
              <=> InputsDiffer(jobs.log[i].product, jobs.log[j].product) )

\* the runs that follow a writing sync run and a translation-job run that
\* translated the product
Settled(i) ==
  \E j \in WritingSyncs : \E k \in 1..Len(jobs.log) :
    /\ j < k
    /\ k < i
    /\ jobs.log[k].job = "translate"
    /\ After(k) # jobs.log[k].before

\* every logged sync run read the same feed record
SameFeedContent ==
  \A i, j \in 1..Len(jobs.log) :
    jobs.log[i].job = "sync" /\ jobs.log[j].job = "sync"
    => jobs.log[i].product = jobs.log[j].product

\* C15: with identical feed content in every run, once a sync run has stored
\* the content hash and the translation job has translated the product, a
\* further sync run or translation-job run neither re-translates the product
\* nor changes the stored hash nor resets its translation record.
C15_TranslationSkippedAcrossJobs ==
  SameFeedContent =>
    \A i \in 1..Len(jobs.log) :
      Settled(i) =>
        /\ After(i).translation = jobs.log[i].before.translation
        /\ After(i).ruDescription = jobs.log[i].before.ruDescription

\* ------------------------------------------------------------------------
\* Spec: run modes, limit, record validation, stale markers, parse errors
\* ------------------------------------------------------------------------

DryMode == config.dryRun \/ config.parseOnly

\* C16: in dry-run and in parse-only mode the product store stays as it was
\* before the run, the sweep included, while every record dequeued is
\* counted and every valid record whose reconciliation did not throw is
\* classified as created, updated or unchanged.
C16_DryModesLeaveCatalog ==
  DryMode =>
    /\ store = storeAtStart
    /\ ~sweepRan
    /\ totals.productsParsed = Len(dequeued)
    /\ Classified(totals)
         = Len(dequeued) - SkippedIn(Len(dequeued)) - ThrewIn(Len(dequeued))

\* a finished dry run classified a product it would have created and met a
\* visible product the feed does not carry
C16_Witness ==
  /\ DryMode
  /\ pc = "done"
  /\ lockPath # ""
  /\ totals.created > 0
  /\ "A" \in seenProductCodes
  /\ ~store["A"].exists
  /\ "C" \notin seenProductCodes
  /\ store["C"].source = "BMHOME"
  /\ store["C"].price # ""

Min(a, b) == IF a <= b THEN a ELSE b

WellFormed == feed.fetchOk /\ \A i \in 1..Len(feed.items) : feed.items[i].type = "Urun"

\* a run with a limit over a well-formed feed has left feed processing and
\* the sweep behind, no progress checkpoint having failed
LimitRunEnded ==
  /\ config.limit # 0
  /\ runNo >= 1
  /\ lockPath # ""
  /\ pc \in {"finalize", "release", "done"}
  /\ WellFormed
  /\ ~Failed("checkpoint")

\* C17: with limit N, productsParsed never exceeds N; over a well-formed
\* feed of M records exactly min(N, M) records are processed, and the
\* records queued beyond the limit are neither reconciled nor counted.
C17_Limit ==
  /\ config.limit # 0 => totals.productsParsed <= config.limit
  /\ LimitRunEnded =>
       /\ totals.productsParsed = Min(config.limit, NumRecords)
       /\ totals.productsFound = totals.productsParsed
       /\ Len(dequeued) = totals.productsParsed
       /\ seenProductCodes = { dequeued[i].id : i \in 1..Len(dequeued) } \ {""}

\* the limit stopped a run with records still queued
C17_Witness ==
  /\ LimitRunEnded
  /\ NumRecords > config.limit
  /\ totals.productsParsed = config.limit
  /\ queue # <<>>

\* drainQueue takes a record that fails validation
SkipStep ==
  /\ pc \in {"drainLoop", "drainEnd"}
  /\ queue # <<>>
  /\ validate(Head(queue), seenProductCodes) # ""
  /\ dequeued' = Append(dequeued, Head(queue))

\* C18: a record without an id, and a record whose code an earlier record of
\* the run carried, is skipped: it adds one to errorsCount, causes no store
\* lookup and no write, is not classified, and the drain goes on with the
\* next record; so each code is reconciled at most once, by the first record
\* that carries it.
C18_RecordValidation ==
  [][ SkipStep =>
        /\ store' = store
        /\ seenProductCodes' = seenProductCodes
        /\ threw' = threw
        /\ Classified(totals') = Classified(totals)
        /\ totals'.productsParsed = totals.productsParsed + 1
        /\ faults' # faults => faults' = Append(faults, "checkpoint")
        /\ faults' = faults =>
             /\ totals'.errorsCount = totals.errorsCount + 1
             /\ fatalError' = fatalError
             /\ queue' = Tail(queue)
             /\ ( Tail(queue) # <<>> /\ ~(config.limit # 0 /\ totals'.productsParsed >= config.limit) )
                  => pc' = pc
    ]_vars

\* the second record of a code was skipped and the row is the first one's
C18_Witness ==
  /\ pc = "done"
  /\ ~DryMode
  /\ dequeued = << ProdA1, ProdA2 >>
  /\ faults = <<>>
  /\ totals.errorsCount = 1
  /\ Classified(totals) = 1
  /\ store["A"].images = << "a.jpg" >>

\* the run started while the marker named no live process: a dead foreign
\* process, an unreadable marker, or the process of an earlier run
StaleStart ==
  /\ runNo >= 1
  /\ pc # "lock"
  /\ lockAtStart.exists
  /\ lockAtStart.pid # LivePid

\* C19: a run that meets a marker naming a dead process, or an unreadable
\* marker, acquires the lock, and from then to its release the marker names
\* the run's own process; the marker a crashed run left blocks no later run.
C19_StaleLockRecovery ==
  StaleStart =>
    /\ lockPath # ""
    /\ pc \notin {"contended", "done"} => lockFile = [ exists |-> TRUE, pid |-> EnginePid(runNo) ]

\* the second run acquired the lock over the marker of the crashed first run
C19_Witness ==
  /\ StaleStart
  /\ runNo = 2
  /\ lockAtStart.pid = EnginePid(1)
  /\ lockPath # ""
  /\ lockFile.pid = EnginePid(2)

\* the records the parser emitted before its first error
QueuedBeforeError ==
  { i \in 1..Len(feed.items) :
      /\ feed.items[i].type = "Urun"
      /\ \E e \in 1..Len(feed.items) : e > i /\ feed.items[e].type = "parseError"
      /\ \A j \in 1..i : feed.items[j].type = "Urun" }

\* C20: a run whose parser reported an error finalizes FAILED, and every
\* record emitted into the queue before the error has been dequeued and
\* processed by then (no limit set, every store call answering).
C20_ParseErrorDrainsQueue ==
  ( /\ runNo >= 1
    /\ pc \in {"release", "done"}
    /\ parserError
    /\ config.limit = 0
    /\ faults = <<>> )
  => /\ runRow.status = "FAILED"
     /\ Len(dequeued) >= Cardinality(QueuedBeforeError)

\* ------------------------------------------------------------------------
\* Spec: errors and their isolation
\* ------------------------------------------------------------------------

\* a finalized run over a well-formed feed that the limit stopped with part
\* of the feed unread, every store call answering
LimitStopFinalized ==
  /\ runNo >= 1
  /\ pc \in {"release", "done"}
  /\ lockPath # ""
  /\ WellFormed
  /\ config.limit # 0
  /\ totals.productsParsed >= config.limit
  /\ pos < Len(feed.items)
  /\ faults = <<>>

\* C21: a run over a well-formed feed that stopped early only because the
\* limit was reached records no error for the stop (the errors counted are
\* those of skipped records) and finalizes with status SUCCESS.
C21_LimitStopNotFailure ==
  LimitStopFinalized =>
    /\ runRow.status = "SUCCESS"
    /\ totals.errorsCount = SkippedIn(Len(dequeued))

\* drainQueue takes a record whose store lookup or write throws
ThrowStep ==
  /\ pc \in {"drainLoop", "drainEnd"}
  /\ queue # <<>>
  /\ dequeued' = Append(dequeued, Head(queue))
  /\ threw' # threw

\* the records of the feed, in document order
RECURSIVE RecordsOf(_)
RecordsOf(items) ==
  IF items = <<>> THEN <<>>
  ELSE IF Head(items).type = "Urun" THEN << Head(items).product >> \o RecordsOf(Tail(items))
  ELSE RecordsOf(Tail(items))

\* feed processing of a run without limit over a well-formed feed is behind
ReadThrough ==
  /\ runNo >= 1
  /\ lockPath # ""
  /\ pc \in {"sweep", "finalize", "release", "done"}
  /\ WellFormed
  /\ config.limit = 0
  /\ ~Failed("checkpoint")

\* C22: a store lookup or write that throws for one record is caught for
\* that record: errorsCount and productsParsed grow by one each, none of
\* created, updated, unchanged grows, the store is as before, the run is not
\* marked failed and the drain goes on with the next record; every record of
\* the feed is dequeued in document order whether or not an earlier one
\* threw.
C22_FailureIsolation ==
  /\ [][ ThrowStep =>
           /\ totals'.errorsCount = totals.errorsCount + 1
           /\ totals'.productsParsed = totals.productsParsed + 1
           /\ totals'.created = totals.created
           /\ totals'.updated = totals.updated
           /\ totals'.unchanged = totals.unchanged
           /\ store' = store
           /\ fatalError' = fatalError
           /\ queue' = Tail(queue)
           /\ ( Tail(queue) # <<>> /\ ~(config.limit # 0 /\ totals'.productsParsed >= config.limit) )
                => pc' = pc
       ]_vars
  /\ [](ReadThrough => dequeued = RecordsOf(feed.items))

\* the first record threw and the second was created
C22_Witness ==
  /\ pc = "done"
  /\ ~DryMode
  /\ 1 \in threw
  /\ Len(dequeued) >= 2
  /\ dequeued[2].id = "B"
  /\ ~storeAtStart["B"].exists
  /\ store["B"].exists
  /\ totals.created = 1
  /\ totals.errorsCount = 1
  /\ runRow.status = "SUCCESS"

\* ------------------------------------------------------------------------
\* Spec: the price-change list
\* ------------------------------------------------------------------------

\* the i-th record dequeued went past validation and the store lookup
LookedUp(i) ==
  /\ dequeued[i].id # ""
  /\ \A j \in 1..(i - 1) : dequeued[j].id # dequeued[i].id
  /\ ~(i \in threw /\ Failed("lookup"))

\* the price computed for the i-th record dequeued
NewPriceOf(i) == derive(dequeued[i], usdToEurRate).newPrice

\* the i-th record met a stored product whose price differs from the
\* computed one; withHidden: a change to or from the empty price counts
PriceDiffers(i, withHidden) ==
  /\ LookedUp(i)
  /\ storeAtStart[dequeued[i].id].exists
  /\ storeAtStart[dequeued[i].id].price # NewPriceOf(i)
  /\ withHidden \/ (storeAtStart[dequeued[i].id].price # "" /\ NewPriceOf(i) # "")

\* the list the claim describes for the first k records dequeued
RECURSIVE ExpectedChanges(_, _)
ExpectedChanges(k, withHidden) ==
  IF k = 0 THEN <<>>
  ELSE IF PriceDiffers(k, withHidden)
  THEN Append(ExpectedChanges(k - 1, withHidden),
              [ productCode |-> dequeued[k].id,
                oldPrice |-> storeAtStart[dequeued[k].id].price,
                newPrice |-> NewPriceOf(k) ])
  ELSE ExpectedChanges(k - 1, withHidden)

\* C23 as stated: the price-change list holds, once each and in order, the
\* products that existed and whose persisted price differs from the computed
\* one, a change to or from the empty price included.
C23_Original == priceChanged = ExpectedChanges(Len(dequeued), TRUE)

\* C23 amended: the same, for the products whose persisted price and
\* computed price are both non-empty; a change to or from the empty price is
\* not listed.
C23_PriceChangeList == priceChanged = ExpectedChanges(Len(dequeued), FALSE)

\* a run listed nothing for a visible product that it hid
C23_Witness ==
  /\ pc = "done"
  /\ ~DryMode
  /\ faults = <<>>
  /\ Len(dequeued) = 1
  /\ dequeued[1].id = "A"
  /\ storeAtStart["A"].price # ""
  /\ store["A"].price = ""
  /\ priceChanged = <<>>

\* ------------------------------------------------------------------------
\* SpecTable: classification of the record
\* ------------------------------------------------------------------------

\* position by position, in order
SameList(a, b) == Len(a) = Len(b) /\ \A i \in 1..Len(a) : a[i] = b[i]

\* one of the fields the claim lists differs from the persisted value
ListedFieldDiffers ==
  \/ table.existing.price # table.row.price
  \/ table.existing.defaultSize # table.row.defaultSize
  \/ table.existing.inStock # table.row.inStock
  \/ table.existing.isNew # table.row.isNew
  \/ table.existing.isRunners # table.row.isRunners
  \/ ~SameList(table.existing.images, table.row.images)
  \/ ~SameList(table.existing.sizes, table.row.sizes)

ClassOf(isUpdated) ==
  IF ~table.existing.exists THEN [ ZeroTotals EXCEPT !.created = 1 ]
  ELSE IF isUpdated THEN [ ZeroTotals EXCEPT !.updated = 1 ]
  ELSE [ ZeroTotals EXCEPT !.unchanged = 1 ]

\* C24 as stated: the record increments exactly one of created, updated,
\* unchanged: created iff no product was persisted, otherwise updated iff
\* price, defaultSize, inStock, isNew, isRunners, images or sizes differs
\* from the persisted value, otherwise unchanged.
C24_Original == table.done => table.counted = ClassOf(ListedFieldDiffers)

\* C24 amended: the same, with the owning source among the compared fields.
C24_Classification ==
  table.done =>
    table.counted = ClassOf(ListedFieldDiffers \/ table.existing.source # table.row.source)

\* a stored row of another source that equals the computed row in every
\* listed field was counted as updated
C24_Witness ==
  /\ table.done
  /\ table.existing.exists
  /\ table.existing.source = "OTHER"
  /\ ~ListedFieldDiffers
  /\ table.counted.updated = 1

\* ------------------------------------------------------------------------
\* SpecTable: the representative variant
\* ------------------------------------------------------------------------

\* the first of the cheapest variants among priced
FirstCheapest(priced) ==
  CHOOSE i \in priced :
    /\ TableData[i].priceEur = MinPriceEur(TableData, priced)
    /\ \A j \in priced : TableData[j].priceEur = MinPriceEur(TableData, priced) => i <= j

\* the persisted price and defaultSize are those of the first cheapest of
\* the variants that count
RepresentativeOf(among) ==
  ( /\ table.done
    /\ normalizeFlag(table.product.active)
    /\ PositivePriced(TableData, among) # {} )
  => /\ table.row.price = toFixed2(MinPriceEur(TableData, PositivePriced(TableData, among)))
     /\ table.row.defaultSize
          = TableData[FirstCheapest(PositivePriced(TableData, among))].sizeLabel

\* C25 as stated: for an active product the persisted price is the minimum
\* priceEur over all its variants that are not custom-size and have
\* priceEur > 0, defaultSize is that variant's size, and the first of
\* several cheapest variants in document order is taken.
C25_Original == RepresentativeOf(AllVariants)

\* C25 amended: the same, over the variants that are active and carry a size
\* label.
C25_RepresentativeVariant == RepresentativeOf(ActiveSized)

\* the cheapest priced variant is inactive and the price is that of the
\* dearer active one
C25_Witness ==
  /\ table.done
  /\ normalizeFlag(table.product.active)
  /\ Len(table.product.variants) = 2
  /\ ~TableData[1].isActive
  /\ TableData[1].priceEur = 1
  /\ 2 \in ActiveSized
  /\ TableData[2].priceEur = 8000
  /\ table.row.price = "80.00"

\* ------------------------------------------------------------------------
\* SpecTable: variant price arithmetic
\* ------------------------------------------------------------------------

\* the feed's prices of variant i, in cents
RegularOf(i) == normalizePriceWithMeta(table.product.variants[i].price).value

DiscountedOf(i) == normalizePriceWithMeta(table.product.variants[i].discountedPrice).value

Positive(value) == value # NoNum /\ value > 0

\* discounted when positive, else regular when positive, else absent
ExpectedUsd(i) ==
  IF Positive(DiscountedOf(i)) THEN DiscountedOf(i)
  ELSE IF Positive(RegularOf(i)) THEN RegularOf(i)
  ELSE NoNum

\* eur (cents) is usd (cents) times rate (hundredths) rounded to the cent
RoundedProduct(eur, usd, rate) ==
  /\ usd * rate - 100 * eur >= -50
  /\ usd * rate - 100 * eur < 50

PriceArithmetic(i) ==
  /\ TableData[i].priceUsd = ExpectedUsd(i)
  /\ IF ExpectedUsd(i) = NoNum THEN TableData[i].priceEur = NoNum
     ELSE /\ TableData[i].priceEur # NoNum
          /\ RoundedProduct(TableData[i].priceEur, ExpectedUsd(i), table.rate)

\* regular 100, discounted 80, rate 0.9 gives 72.00
PriceExample ==
  /\ variantData(VPriced, 90).priceUsd = 8000
  /\ variantData(VPriced, 90).priceEur = 7200

\* C26 as stated: every variant's USD price is its discounted price when
\* that is positive, else its regular price when that is positive, else
\* absent; priceEur is that price times the rate rounded to 2 decimals, and
\* absent whenever the USD price is absent.
C26_Original == \A i \in AllVariants : PriceArithmetic(i)

\* C26 amended: the arithmetic holds for every variant that is not
\* custom-size; a custom-size variant has neither a USD price nor a priceEur.
C26_PriceArithmetic ==
  /\ PriceExample
  /\ \A i \in AllVariants :
       IF TableData[i].isSpecialSize
       THEN TableData[i].priceUsd = NoNum /\ TableData[i].priceEur = NoNum
       ELSE PriceArithmetic(i)

\* a discounted variant next to a custom-size variant that the feed prices
C26_Witness ==
  /\ table.done
  /\ Len(table.product.variants) = 2
  /\ table.product.variants[1] = VPriced
  /\ TableData[1].priceUsd = 8000
  /\ table.rate = 20
  /\ TableData[1].priceEur = 1600
  /\ TableData[2].isSpecialSize
  /\ Positive(RegularOf(2))
  /\ TableData[2].priceUsd = NoNum

\* ------------------------------------------------------------------------
\* Spec: backpressure and ordering
\* ------------------------------------------------------------------------

\* the read loop takes a chunk from the stream
ChunkRead == pc = "read" /\ pos' > pos

\* a step of the drain that the read loop started
SuspendedStep == pc = "drainLoop"

\* C27: the read loop never reads a chunk while the queue holds
\* PROGRESS_EVERY or more records: every chunk read starts with fewer, the
\* loop is never about to read with that many queued, and while the drain it
\* awaits is under way each step takes exactly one record off the queue and
\* reads nothing.
C27_Backpressure ==
  /\ [][ChunkRead => Len(queue) < PROGRESS_EVERY]_vars
  /\ [][SuspendedStep => (pos' = pos /\ queue # <<>> /\ queue' = Tail(queue))]_vars
  /\ [](Len(queue) >= PROGRESS_EVERY => pc # "read")

\* the queue reached the threshold, was drained, and the loop is back at
\* reading the rest of the feed
C27_Witness ==
  /\ pc = "read"
  /\ pos < Len(feed.items)
  /\ Len(dequeued) >= PROGRESS_EVERY
  /\ queue = <<>>
  /\ ~stopRequested

\* the records of the part of the feed the parser has consumed
RecordsRead == RecordsOf(SubSeq(feed.items, 1, pos))

\* a reconciliation: the drain takes a record and runs processProduct on it
ReconcileStep == pc \in {"drainLoop", "drainEnd"} /\ dequeued' # dequeued

\* C28: records are reconciled in feed document order: the records
\* reconciled so far followed by those still queued are the records read
\* from the feed, in that order, through every parse/drain cycle; each
\* reconciliation is that of the oldest queued record, touches no other
\* product's row and is over before the next one starts.
C28_DocumentOrder ==
  /\ [](dequeued \o queue = RecordsRead)
  /\ [][ReconcileStep =>
          /\ dequeued' = Append(dequeued, Head(queue))
          /\ queue' = Tail(queue)
          /\ \A c \in Codes : c # Head(queue).id => store'[c] = store[c]
       ]_vars

\* a second parse/drain cycle: the first PROGRESS_EVERY records were
\* reconciled by the drain the read loop awaited, and the record read after
\* it waits for the final drain
C28_Witness ==
  /\ pc = "drainEnd"
  /\ Len(dequeued) = PROGRESS_EVERY
  /\ dequeued[1] = FillerProduct(1)
  /\ dequeued[PROGRESS_EVERY] = FillerProduct(PROGRESS_EVERY)
  /\ queue = << ProdA1 >>
  /\ store[FillerCode(PROGRESS_EVERY)].exists

\* ------------------------------------------------------------------------
\* SpecParser: the extractor (the sax handlers of lines 1085-1257)
\* ------------------------------------------------------------------------

\* String.prototype.trim on the texts in use
Trim(text) ==
  CASE text = " 160x230 " -> "160x230"
    [] text = " " -> ""
    [] OTHER -> text

\* NFKD, strip combining marks, dotless i, lower-case, collapse blanks
normalizeSpecialSize(value) ==
  CASE value = "Ebat" -> "ebat"
    [] value = "Renk" -> "renk"
    [] value = "Özel Ölçü" -> "ozel olcu"
    [] OTHER -> value

isSizeOptionName(value) ==
  /\ value # ""
  /\ normalizeSpecialSize(value) \in {"size", "ebat", "ozel olcu", "boyut"}

isSizeValue(value) ==
  /\ value # ""
  /\ Trim(value) # ""
  /\ isSpecialSizeLabel(Trim(value)) \/ SIZE_REGEX(Trim(value)) # <<>>

variantOptionTags == {"Ozellik", "SecenekOzellik", "SecenekOzelligi", "SecenekOzellikleri"}

variantOptionNameTags == {"Tanim", "OzellikTanim", "SecenekTanim", "SecenekAdi"}

variantOptionValueTags == {"Deger", "OzellikDeger", "SecenekDeger", "DegerTanim"}

variantSizeTags == {"SecenekAdi", "SecenekDeger", "Ebat", "Boyut", "Size", "Beden"}

\* null and {} of currentVariantOption, currentVariant, currentDetail and
\* currentProduct; an undefined field is ""
NoOption == [ live |-> FALSE, name |-> "", value |-> "" ]

NewOption == [ live |-> TRUE, name |-> "", value |-> "" ]

NoVariant == [ live |-> FALSE, active |-> "", sku |-> "", size |-> "" ]

NewVariant == [ live |-> TRUE, active |-> "", sku |-> "", size |-> "" ]

NoDetail == [ live |-> FALSE, key |-> "", value |-> "" ]

NewDetail == [ live |-> TRUE, key |-> "", value |-> "" ]

NoProduct ==
  [ live |-> FALSE, id |-> "", active |-> "", variants |-> <<>>,
    technicalDetails |-> <<>> ]

NewProduct ==
  [ live |-> TRUE, id |-> "", active |-> "", variants |-> <<>>,
    technicalDetails |-> <<>> ]

\* assignVariantSize without the test of currentVariant.size
assignVariantSize_overwrites(x, candidate) ==
  IF ~x.currentVariant.live THEN x
  ELSE IF candidate = "" THEN x
  ELSE IF isSizeValue(candidate)
  THEN [ x EXCEPT !.currentVariant.size = Trim(candidate) ]
  ELSE x

\* lines 1096-1102
assignVariantSize(x, candidate) ==
  IF ~x.currentVariant.live THEN x
  ELSE IF candidate = "" \/ x.currentVariant.size # "" THEN x
  ELSE IF isSizeValue(candidate)
  THEN [ x EXCEPT !.currentVariant.size = Trim(candidate) ]
  ELSE x

\* lines 1103-1110
applyVariantOption(x) ==
  IF ~x.currentVariant.live \/ ~x.currentVariantOption.live THEN x
  ELSE IF Trim(x.currentVariantOption.value) = "" \/ x.currentVariant.size # "" THEN x
  ELSE IF isSizeOptionName(x.currentVariantOption.name)
            \/ isSizeValue(Trim(x.currentVariantOption.value))
  THEN [ x EXCEPT !.currentVariant.size = Trim(x.currentVariantOption.value) ]
  ELSE x

\* lines 1120-1133
openElement(x, node) ==
  IF node.name = "Urun" THEN [ x EXCEPT !.currentProduct = NewProduct ]
  ELSE IF node.name = "Secenek"
  THEN [ x EXCEPT !.currentVariant = NewVariant, !.currentVariantOption = NoOption ]
  ELSE IF node.name = "TeknikDetay" THEN [ x EXCEPT !.currentDetail = NewDetail ]
  ELSE x

\* lines 1136-1140
openOption(x, node) ==
  IF node.name \in variantOptionTags THEN [ x EXCEPT !.currentVariantOption = NewOption ]
  ELSE IF node.name \in {"SecenekAdi", "SecenekDeger"} /\ ~x.currentVariantOption.live
  THEN [ x EXCEPT !.currentVariantOption = NewOption ]
  ELSE x

\* lines 1143-1150: getAttributeValue trims the attribute
openAttributes(x, node) ==
  [ x EXCEPT !.currentVariantOption.name = IF Trim(node.Tanim) # "" THEN Trim(node.Tanim) ELSE @,
             !.currentVariantOption.value = IF Trim(node.Deger) # "" THEN Trim(node.Deger) ELSE @ ]

\* lines 1151-1157
openSize(x) ==
  IF /\ x.currentVariantOption.value # ""
     /\ x.currentVariant.size = ""
     /\ isSizeOptionName(x.currentVariantOption.name)
          \/ isSizeValue(x.currentVariantOption.value)
  THEN [ x EXCEPT !.currentVariant.size = Trim(x.currentVariantOption.value) ]
  ELSE x

\* lines 1135-1159
openVariant(x, node) ==
  IF x.currentVariant.live /\ ~x.currentDetail.live
  THEN IF openOption(x, node).currentVariantOption.live
       THEN openSize(openAttributes(openOption(x, node), node))
       ELSE openOption(x, node)
  ELSE x

\* lines 1119-1160
onopentag(x, node) ==
  openVariant(openElement([ x EXCEPT !.elementStack = Append(@, node.name),
                                     !.textStack = Append(@, "") ], node), node)

\* lines 1162-1172: ontext and oncdata
ontext(x, text) ==
  IF x.textStack = <<>> THEN x
  ELSE [ x EXCEPT !.textStack[Len(x.textStack)] = @ \o text ]

\* lines 1178-1187
closeVariantFields(x, name, value) ==
  IF ~x.currentVariant.live THEN x
  ELSE [ x EXCEPT !.currentVariant.active = IF name = "Aktif" THEN value ELSE @,
                  !.currentVariant.sku = IF name = "StokKodu" THEN value ELSE @ ]

\* lines 1190-1197
closeOptionName(x, name, value) ==
  IF name \notin variantOptionNameTags THEN x
  ELSE applyVariantOption(
         IF name = "SecenekAdi"
         THEN assignVariantSize([ x EXCEPT !.currentVariantOption = [ live |-> TRUE, name |-> value, value |-> @.value ] ], value)
         ELSE [ x EXCEPT !.currentVariantOption = [ live |-> TRUE, name |-> value, value |-> @.value ] ])

\* lines 1198-1205
closeOptionValue(x, name, value) ==
  IF name \notin variantOptionValueTags THEN x
  ELSE IF name = "SecenekDeger"
  THEN [ applyVariantOption([ x EXCEPT !.currentVariantOption = [ live |-> TRUE, name |-> @.name, value |-> value ] ])
           EXCEPT !.currentVariantOption = NoOption ]
  ELSE applyVariantOption([ x EXCEPT !.currentVariantOption = [ live |-> TRUE, name |-> @.name, value |-> value ] ])

\* lines 1207-1209
closeSizeTag(x, name, value) ==
  IF name \in variantSizeTags THEN assignVariantSize(x, value) ELSE x

\* lines 1211-1220
closeOptionTag(x, name, value) ==
  IF name \in variantOptionTags
  THEN [ applyVariantOption(IF name = "Ozellik" THEN assignVariantSize(x, value) ELSE x)
           EXCEPT !.currentVariantOption = NoOption ]
  ELSE x

\* lines 1189-1221
closeVariantOption(x, name, value) ==
  IF x.currentVariant.live /\ ~x.currentDetail.live
  THEN closeOptionTag(closeSizeTag(closeOptionValue(closeOptionName(x, name, value), name, value), name, value), name, value)
  ELSE x

\* lines 1224-1227
closeDetailFields(x, name, value) ==
  IF ~x.currentDetail.live THEN x
  ELSE [ x EXCEPT !.currentDetail.key = IF name = "OzellikTanim" THEN value ELSE @,
                  !.currentDetail.value = IF name = "DegerTanim" THEN value ELSE @ ]

\* the product's fields taken from every closed field tag
closeProductFields_anywhere(x, name, value) ==
  IF x.currentProduct.live
  THEN [ x EXCEPT !.currentProduct.active = IF name = "Aktif" THEN value ELSE @,
                  !.currentProduct.id = IF name = "UrunKartiID" THEN value ELSE @ ]
  ELSE x

\* lines 1229-1240
closeProductFields(x, name, value) ==
  IF x.currentProduct.live /\ ~x.currentVariant.live /\ ~x.currentDetail.live
  THEN [ x EXCEPT !.currentProduct.active = IF name = "Aktif" THEN value ELSE @,
                  !.currentProduct.id = IF name = "UrunKartiID" THEN value ELSE @ ]
  ELSE x

\* lines 1242-1245
closeTeknikDetay(x, name) ==
  IF name = "TeknikDetay" /\ x.currentProduct.live /\ x.currentDetail.live
  THEN [ x EXCEPT !.currentProduct.technicalDetails = Append(@, x.currentDetail),
                  !.currentDetail = NoDetail ]
  ELSE x

\* lines 1247-1251
closeSecenek(x, name) ==
  IF name = "Secenek" /\ x.currentProduct.live /\ x.currentVariant.live
  THEN [ x EXCEPT !.currentProduct.variants = Append(@, x.currentVariant),
                  !.currentVariant = NoVariant, !.currentVariantOption = NoOption ]
  ELSE x

\* lines 1253-1256
closeUrun(x, name) ==
  IF name = "Urun" /\ x.currentProduct.live
  THEN [ x EXCEPT !.queue = Append(@, x.currentProduct), !.currentProduct = NoProduct ]
  ELSE x

\* lines 1174-1257, with the trimmed text popped off textStack
closeTag(x, name, popped) ==
  closeUrun(closeSecenek(closeTeknikDetay(
    closeProductFields(closeDetailFields(closeVariantOption(closeVariantFields(
      [ x EXCEPT !.elementStack = SubSeq(@, 1, Len(@) - 1),
                 !.textStack = SubSeq(@, 1, Len(@) - 1) ],
      name, popped), name, popped), name, popped), name, popped),
    name), name), name)

onclosetag(x, name) ==
  closeTag(x, name, IF x.textStack = <<>> THEN "" ELSE Trim(x.textStack[Len(x.textStack)]))

MaxChildren == 2
MaxSources == 3

\* an element of the feed document: its tag, its Tanim and Deger attributes,
\* its own text and its child elements
El(name, tanim, deger, text, children) ==
  [ name |-> name, Tanim |-> tanim, Deger |-> deger, text |-> text, children |-> children ]

Leaf(name, text) == El(name, "", "", text, <<>>)

Node(name, children) == El(name, "", "", "", children)

\* what a product element may hold next to its UrunKartiID: fields, variants
\* and technical details as the feed nests them, behind a plain wrapper
\* element, and nested in an element of their own kind
ProductChildren ==
  { Leaf("Aktif", "true"),
    Node("Secenek", << Leaf("StokKodu", "s1"), Leaf("Aktif", "false") >>),
    Node("Secenekler", << Node("Secenek", << Leaf("StokKodu", "s2") >>) >>),
    Node("TeknikDetay", << Leaf("OzellikTanim", "k1"), Leaf("Aktif", "false") >>),
    Node("Secenek", << Leaf("StokKodu", "s3"),
                       Node("TeknikDetay", << Leaf("OzellikTanim", "k2"), Leaf("Aktif", "0") >>) >>),
    Node("Secenek", << Leaf("StokKodu", "s4"), Node("Secenek", << Leaf("StokKodu", "s5") >>) >>),
    Node("TeknikDetay", << Leaf("OzellikTanim", "k3"),
                           Node("TeknikDetay", << Leaf("OzellikTanim", "k4") >>) >>),
    Node("Urun", << Leaf("UrunKartiID", "N"), Leaf("Aktif", "false") >>) }

ProductElement(id, children) == Node("Urun", << Leaf("UrunKartiID", id) >> \o children)

\* elements outside every product element
Strays ==
  { Node("Secenek", << Leaf("StokKodu", "s6") >>),
    Node("TeknikDetay", << Leaf("OzellikTanim", "k5") >>) }

AssemblyDocuments ==
  { << Node("Urunler", head \o << ProductElement("A", first) >> \o rest) >> :
      head \in SeqsUpTo(Strays, 1),
      first \in SeqsUpTo(ProductChildren, MaxChildren),
      rest \in {<<>>} \cup { << ProductElement("B", second) >> :
                               second \in SeqsUpTo(ProductChildren, 1) } }

\* the shapes in which a variant element carries a size candidate
SizeSources ==
  { El("Ozellik", "Ebat", "80x150 cm", "", <<>>),
    El("Ozellik", "Renk", "Kirmizi", "", <<>>),
    El("Ozellik", "Renk", " 160x230 ", "", <<>>),
    El("Ozellik", "", "", "160x230", <<>>),
    Leaf("Tanim", "Ebat"),
    Leaf("Deger", "Kirmizi"),
    Leaf("Deger", "160x230"),
    Leaf("Ebat", "80x150 cm"),
    Leaf("Ebat", "Kirmizi"),
    Leaf("SecenekAdi", "Özel Ölçü") }

SizeDocuments ==
  { << Node("Urunler", << ProductElement("A", << Node("Secenek", sources) >>) >>) >> :
      sources \in SeqsUpTo(SizeSources, MaxSources) }

Documents == AssemblyDocuments \cup SizeDocuments

\* the events the strict parser emits for a well-formed document
RECURSIVE EventsOf(_)
EventsOf(forest) ==
  IF forest = <<>> THEN <<>>
  ELSE << [ type |-> "open", name |-> Head(forest).name, Tanim |-> Head(forest).Tanim,
            Deger |-> Head(forest).Deger, text |-> "" ] >>
       \o ( IF Head(forest).text = "" THEN <<>>
            ELSE << [ type |-> "text", name |-> "", Tanim |-> "", Deger |-> "",
                      text |-> Head(forest).text ] >> )
       \o EventsOf(Head(forest).children)
       \o << [ type |-> "close", name |-> Head(forest).name, Tanim |-> "", Deger |-> "",
               text |-> "" ] >>
       \o EventsOf(Tail(forest))

\* lines 1085-1091: the handlers' state before the first event
InitParser ==
  /\ NoInput
  /\ lockFile = NoLock
  /\ EngineAtRest
  /\ procs = NoProcs
  /\ table = NoTable
  /\ jobs = NoJobs
  /\ cart = NoCart
  /\ crawl = NoCrawl
  /\ \E doc \in Documents :
       sax = [ doc |-> doc, events |-> EventsOf(doc), at |-> 0,
               elementStack |-> <<>>, textStack |-> <<>>,
               currentProduct |-> NoProduct, currentVariant |-> NoVariant,
               currentVariantOption |-> NoOption, currentDetail |-> NoDetail,
               queue |-> <<>> ]

NextEvent == sax.events[sax.at + 1]

OpenTag ==
  /\ sax.at < Len(sax.events)
  /\ NextEvent.type = "open"
  /\ sax' = [ onopentag(sax, NextEvent) EXCEPT !.at = @ + 1 ]
  /\ UNCHANGED << engineVars, procs, table, jobs, cart, crawl >>

Text ==
  /\ sax.at < Len(sax.events)
  /\ NextEvent.type = "text"
  /\ sax' = [ ontext(sax, NextEvent.text) EXCEPT !.at = @ + 1 ]
  /\ UNCHANGED << engineVars, procs, table, jobs, cart, crawl >>

CloseTag ==
  /\ sax.at < Len(sax.events)
  /\ NextEvent.type = "close"
  /\ sax' = [ onclosetag(sax, NextEvent.name) EXCEPT !.at = @ + 1 ]
  /\ UNCHANGED << engineVars, procs, table, jobs, cart, crawl >>

NextParser == OpenTag \/ Text \/ CloseTag

SpecParser == InitParser /\ [][NextParser]_vars

\* the next event opens a variant element
OpensVariant ==
  /\ sax.at < Len(sax.events)
  /\ NextEvent.type = "open"
  /\ NextEvent.name = "Secenek"

\* the variant the handlers are in has its size
SizeSet == sax.currentVariant.live /\ sax.currentVariant.size # ""

\* C29: within one variant element, once the variant's size is set (by
\* Tanim/Deger attributes, an option name/value pair or a size tag) no later
\* tag or attribute of that variant changes it, and the variant is attached
\* to its product with that size: the first accepted candidate wins.
C29_FirstSizeWins ==
  [][ (SizeSet /\ ~OpensVariant) =>
        IF sax'.currentVariant.live
        THEN sax'.currentVariant.size = sax.currentVariant.size
        ELSE /\ sax'.currentProduct.variants # <<>>
             /\ sax'.currentProduct.variants[Len(sax'.currentProduct.variants)].size
                  = sax.currentVariant.size
    ]_vars

\* attributes set the size first; an option value and a size tag that would
\* each be accepted follow, and the queued variant has the first size
C29_Witness ==
  /\ sax # NoSax
  /\ sax.at = Len(sax.events)
  /\ sax.doc = << Node("Urunler", << ProductElement("A", << Node("Secenek",
                   << El("Ozellik", "Ebat", "80x150 cm", "", <<>>),
                      Leaf("Deger", "160x230"),
                      Leaf("SecenekAdi", "Özel Ölçü") >>) >>) >>) >>
  /\ Len(sax.queue) = 1
  /\ sax.queue[1].variants[1].size = "80x150 cm"

\* the elements of a forest with a name in names, in the order they close
RECURSIVE Closed(_, _)
Closed(forest, names) ==
  IF forest = <<>> THEN <<>>
  ELSE Closed(Head(forest).children, names)
       \o ( IF Head(forest).name \in names THEN << Head(forest) >> ELSE <<>> )
       \o Closed(Tail(forest), names)

\* the same, without the elements that lie inside one of the stops
RECURSIVE ClosedOutside(_, _, _)
ClosedOutside(forest, names, stops) ==
  IF forest = <<>> THEN <<>>
  ELSE ( IF Head(forest).name \in stops THEN <<>>
         ELSE ClosedOutside(Head(forest).children, names, stops) )
       \o ( IF Head(forest).name \in names THEN << Head(forest) >> ELSE <<>> )
       \o ClosedOutside(Tail(forest), names, stops)

TextsOf(elements) == [ i \in 1..Len(elements) |-> elements[i].text ]

LastText(elements) == IF elements = <<>> THEN "" ELSE elements[Len(elements)].text

\* the product elements of the document, and the variant and detail
\* elements a product element encloses
ProductElements == Closed(sax.doc, {"Urun"})

VariantsIn(product) == ClosedOutside(product.children, {"Secenek"}, {"Urun"})

DetailsIn(product) == ClosedOutside(product.children, {"TeknikDetay"}, {"Urun"})

\* the field tags of a product element that lie in none of its variants,
\* details or inner products
OwnFields(product, name) ==
  ClosedOutside(product.children, {name}, {"Secenek", "TeknikDetay", "Urun"})

OwnOrUnset(value, fields) ==
  value = "" \/ \E i \in 1..Len(fields) : fields[i].text = value

\* no product, variant or detail element inside one of its own kind
RECURSIVE NoSelfNesting(_, _)
NoSelfNesting(forest, around) ==
  \/ forest = <<>>
  \/ /\ Head(forest).name \notin around
     /\ NoSelfNesting(Head(forest).children,
                      around \cup ({Head(forest).name} \cap {"Urun", "Secenek", "TeknikDetay"}))
     /\ NoSelfNesting(Tail(forest), around)

ParsedAll == sax.at = Len(sax.events)

\* record i of the queue is product element i: its variants and details are
\* those the element encloses, with the fields closed inside them, and its
\* own fields come from none of them
AssembledAs(record, product) ==
  /\ Len(record.variants) = Len(VariantsIn(product))
  /\ \A j \in 1..Len(record.variants) :
       /\ record.variants[j].sku = LastText(Closed(VariantsIn(product)[j].children, {"StokKodu"}))
       /\ record.variants[j].active = LastText(Closed(VariantsIn(product)[j].children, {"Aktif"}))
  /\ Len(record.technicalDetails) = Len(DetailsIn(product))
  /\ \A j \in 1..Len(record.technicalDetails) :
       record.technicalDetails[j].key
         = LastText(Closed(DetailsIn(product)[j].children, {"OzellikTanim"}))
  /\ OwnOrUnset(record.active, OwnFields(product, "Aktif"))
  /\ OwnOrUnset(record.id, OwnFields(product, "UrunKartiID"))

Assembled ==
  /\ Len(sax.queue) = Len(ProductElements)
  /\ \A i \in 1..Len(sax.queue) : AssembledAs(sax.queue[i], ProductElements[i])

\* C30 as stated: for any well-nested tag event sequence exactly one record
\* is queued per closed product element, in document order; each closed
\* variant and technical detail is attached to the product element that
\* encloses it and to no other; a field tag closed inside a variant or
\* detail sets that variant's or detail's field and never the product's.
C30_Original == ParsedAll => Assembled

\* C30 amended: the same for every well-nested sequence in which no
\* product, variant or detail element lies inside an element of its own
\* kind.
C30_Assembly == (ParsedAll /\ NoSelfNesting(sax.doc, {})) => Assembled

\* two products: the first with a variant that holds a detail with a field
\* tag and a variant behind a wrapper element, the second with a detail
C30_Witness ==
  /\ sax # NoSax
  /\ ParsedAll
  /\ NoSelfNesting(sax.doc, {})
  /\ Len(sax.queue) = 2
  /\ Len(sax.queue[1].variants) = 2
  /\ sax.queue[1].variants[1].sku = "s3"
  /\ sax.queue[1].variants[1].active = "0"
  /\ sax.queue[1].technicalDetails[1].key = "k2"
  /\ sax.queue[1].variants[2].sku = "s2"
  /\ sax.queue[2].technicalDetails # <<>>
  /\ sax.queue[2].variants = <<>>

\* ------------------------------------------------------------------------
\* Spec: the retained error list
\* ------------------------------------------------------------------------

\* errors recorded by a step within one run
ErrorStep == runNo' = runNo /\ totals'.errorsCount # totals.errorsCount

\* C31: the retained error list holds min(errorsCount, 10) entries in every
\* state; errorsCount only grows within a run, every entry once retained
\* stays at its place, new entries are added at the end while fewer than 10
\* are held and none afterwards: the list is the first ten errors of the
\* run in the order they occurred, and errorsCount counts every error.
C31_BoundedErrorList ==
  /\ [](Len(topErrors) = Min(totals.errorsCount, 10))
  /\ [][ErrorStep =>
          /\ totals'.errorsCount > totals.errorsCount
          /\ Len(topErrors') >= Len(topErrors)
          /\ SubSeq(topErrors', 1, Len(topErrors)) = topErrors
       ]_vars
  /\ [][(runNo' = runNo /\ topErrors' # topErrors) => ErrorStep]_vars

\* ten invalid records filled the list, and the failure of the sweep after
\* them was counted but not retained
C31_Witness ==
  /\ totals.errorsCount > 10
  /\ Len(topErrors) = 10
  /\ faults # <<>>
  /\ \A i \in 1..10 : topErrors[i] # "Failed to deactivate missing products"

\* ------------------------------------------------------------------------
\* SpecTable: the rate guard
\* ------------------------------------------------------------------------

\* a configured rate that is missing, not finite, not positive or outside
\* [0.2, 2.0]
Misconfigured(value) ==
  \/ value \in {NoNum, NotANumber, PositiveInfinity}
  \/ value <= 0
  \/ value < 20
  \/ value > 200

\* C32: the rate used for conversion lies in [0.2, 2.0]; a configured rate
\* that is missing, non-finite, non-positive or outside [0.2, 2.0] is
\* replaced by 1.0, and any other configured rate is used as it is.
C32_RateGuard ==
  /\ table.rate >= 20
  /\ table.rate <= 200
  /\ IF Misconfigured(table.configured) THEN table.rate = 100
     ELSE table.rate = table.configured
  /\ table.done => table.result = derive(table.product, table.rate)

\* a configured rate of 2.01 is replaced: the 80 USD variant is persisted
\* at 80.00
C32_Witness ==
  /\ table.done
  /\ table.configured = 201
  /\ table.rate = 100
  /\ table.product.variants = << VPriced >>
  /\ table.row.price = "80.00"

\* ------------------------------------------------------------------------
\* Spec: the sweep of a run that processed nothing
\* ------------------------------------------------------------------------

\* the sweep block of a run that dequeued no record is behind
SweptNothingProcessed ==
  /\ runNo >= 1
  /\ pc \in {"finalize", "release", "done"}
  /\ lockPath # ""
  /\ dequeued = <<>>

\* C33: if no record was dequeued during the run (empty feed, failed fetch,
\* failure before the first drain), the sweep step changes no product and no
\* counter, and the run ends with the store as it found it and deactivated
\* at 0, in a dry run or not.
C33_NoSweepWithoutRecords ==
  /\ [][ (pc = "sweep" /\ dequeued = <<>>) => (store' = store /\ totals' = totals) ]_vars
  /\ [](SweptNothingProcessed => (store = storeAtStart /\ totals.deactivated = 0 /\ ~sweepRan))

\* a writing run whose feed could not be fetched, over a catalog with a
\* visible product of this source that a sweep would hide
C33_Witness ==
  /\ SweptNothingProcessed
  /\ ~config.dryRun
  /\ ~config.parseOnly
  /\ ~feed.fetchOk
  /\ fatalError
  /\ store["C"] = VisibleC
  /\ store["A"] = OldA

\* ------------------------------------------------------------------------
\* Spec: defaultSize and sizes
\* ------------------------------------------------------------------------

\* defaultSize is null or one of the row's sizes
SizeConsistent(row) ==
  row.defaultSize = Null \/ \E i \in 1..Len(row.sizes) : row.sizes[i] = row.defaultSize

OwnRows(products) == { c \in Codes : products[c].exists /\ products[c].source = "BMHOME" }

AllRows(products) == { c \in Codes : products[c].exists }

\* the property holds for every product in rows when it held for every
\* product in rowsAtStart as the run began
SizesKept(rowsAtStart) ==
  (\A c \in rowsAtStart : SizeConsistent(storeAtStart[c]))
    => \A c \in OwnRows(store) : SizeConsistent(store[c])

\* C34 as stated: provided every product of this feed source has a
\* defaultSize that is null or one of its persisted sizes in the initial
\* store, the same holds after any sequence of reconciliations and sweeps.
C34_Original == SizesKept(OwnRows(storeAtStart))

\* C34 amended: provided it holds for every product of the initial store,
\* whatever its source.
C34_DefaultSizeConsistent == SizesKept(AllRows(storeAtStart))

\* a record without sizes kept the stored sizes and defaultSize of its
\* product, and the sweep emptied both for a product missing from the feed
C34_Witness ==
  /\ sweepRan
  /\ storeAtStart["A"] = OldA
  /\ storeAtStart["C"] = VisibleC
  /\ dequeued = << ProdA2 >>
  /\ store["A"].sizes = OldA.sizes
  /\ store["A"].defaultSize = OldA.defaultSize
  /\ store["C"].sizes = <<>>
  /\ store["C"].defaultSize = Null

\* ------------------------------------------------------------------------
\* SpecTable: custom-size variants
\* ------------------------------------------------------------------------

\* the variants whose feed size is the custom-size label
CustomSized ==
  { i \in AllVariants : table.product.variants[i].size \in {"Özel Ölçü", "ozel olcu", "OZEL ÖLÇÜ"} }

\* the variants that can give the product its price
Contributors ==
  { i \in ActiveSized \ CustomSized : TableData[i].priceEur # NoNum /\ TableData[i].priceEur > 0 }

\* C35: a variant whose size is the custom-size label has neither priceUsd
\* nor priceEur, even when its regular or discounted price is positive, and
\* hasPositivePrice and the product's minimum price are those of the other
\* variants alone.
C35_CustomSizeUnpriced ==
  /\ \A i \in CustomSized :
       /\ TableData[i].isSpecialSize
       /\ TableData[i].priceUsd = NoNum
       /\ TableData[i].priceEur = NoNum
  /\ table.done =>
       /\ table.result.hasPositivePrice = (Contributors # {})
       /\ table.result.basePriceEur
            = IF Contributors = {} THEN NoNum ELSE MinPriceEur(TableData, Contributors)

\* an active custom-size variant that the feed prices at 0.01 next to a
\* sized variant at 80: the product's minimum is the 80
C35_Witness ==
  /\ table.done
  /\ table.rate = 100
  /\ Len(table.product.variants) = 2
  /\ 1 \in CustomSized
  /\ TableData[1].isActive
  /\ table.product.variants[1].price = "0.01"
  /\ table.product.variants[2] = VPriced
  /\ table.result.hasPositivePrice
  /\ table.result.basePriceEur = 8000

\* ------------------------------------------------------------------------
\* SpecJobs: the Russian rows under a resync
\* ------------------------------------------------------------------------

\* job i is a writing sync run that finds the product stored, with its ru
\* description and feature rows, under the digest of the record it carries
UnchangedResync(i) ==
  /\ jobs.log[i].job = "sync"
  /\ ~jobs.log[i].dryRun
  /\ jobs.log[i].before.exists
  /\ jobs.log[i].before.translation.enHash = buildBmhomeTranslationHash(jobs.log[i].product)

RuRows(row) == << row.ruDescription, row.ruFeature, row.ruColor, row.ruCollection, row.ruStyle >>

\* C36: a sync run over an existing product whose content hash is unchanged
\* and whose ru description and feature rows exist leaves the product's ru
\* description, feature, color, collection and style rows as they were,
\* whichever taxonomy dimensions the product has.
C36_ResyncPreservesRu ==
  \A i \in 1..Len(jobs.log) :
    UnchangedResync(i) => RuRows(After(i)) = RuRows(jobs.log[i].before)

\* ------------------------------------------------------------------------
\* SpecCart: the cart store (useCartStore) under its five operations
\* ------------------------------------------------------------------------

MaxQuantity == 3

CartIds == { 1, 2 }

\* price strings a product page hands to the store
CartPrices == { "100", "250", "1,390.00", "0" }

CartProducts ==
  { [ id |-> id, price |-> price, priceOnRequest |-> flag ] :
      id \in CartIds, price \in CartPrices, flag \in BOOLEAN }

\* parseFloat(price.replace(/,/g, ''))
parsePrice(price) ==
  CASE price = "100" -> 100
    [] price = "250" -> 250
    [] price = "1,390.00" -> 1390
    [] price = "0" -> 0
    [] OTHER -> NotANumber

isPriceOnRequestProduct(product) ==
  IF product.priceOnRequest THEN TRUE
  ELSE IF Trim(product.price) = "" THEN FALSE
  ELSE parsePrice(product.price) # NotANumber /\ parsePrice(product.price) <= 0

\* cart.find((c) => c.item.id === id) finds an entry
existing(entries, id) == \E i \in 1..Len(entries) : entries[i].item.id = id

\* cart.filter((c) => c.item.id !== id)
withoutId(entries, id) == SelectSeq(entries, LAMBDA c : c.item.id # id)

cartAfterAdd(entries, product) ==
  IF isPriceOnRequestProduct(product) THEN entries
  ELSE IF existing(entries, product.id)
    THEN [ i \in 1..Len(entries) |->
             IF entries[i].item.id = product.id
               THEN [ entries[i] EXCEPT !.quantity = @ + 1,
                        !.totalPrice = (entries[i].quantity + 1) * parsePrice(product.price) ]
               ELSE entries[i] ]
    ELSE Append(entries, [ item |-> product, quantity |-> 1,
                           totalPrice |-> parsePrice(product.price) ])

cartAfterDecrease(entries, id) ==
  IF \E i \in 1..Len(entries) : entries[i].item.id = id /\ entries[i].quantity > 1
    THEN [ i \in 1..Len(entries) |->
             IF entries[i].item.id = id
               THEN [ entries[i] EXCEPT !.quantity = @ - 1,
                        !.totalPrice = (entries[i].quantity - 1) * parsePrice(entries[i].item.price) ]
               ELSE entries[i] ]
    ELSE withoutId(entries, id)

cartAfterIncrease(entries, id) ==
  IF existing(entries, id)
    THEN [ i \in 1..Len(entries) |->
             IF entries[i].item.id = id
               THEN [ entries[i] EXCEPT !.quantity = @ + 1,
                        !.totalPrice = (entries[i].quantity + 1) * parsePrice(entries[i].item.price) ]
               ELSE entries[i] ]
    ELSE entries

\* no entry has reached the quantity bound of the model
BelowMaxQuantity(id) ==
  \A i \in 1..Len(cart) : cart[i].item.id = id => cart[i].quantity < MaxQuantity

InitCart ==
  /\ NoInput
  /\ lockFile = NoLock
  /\ EngineAtRest
  /\ procs = NoProcs
  /\ table = NoTable
  /\ jobs = NoJobs
  /\ sax = NoSax
  /\ crawl = NoCrawl
  /\ cart = <<>>

cartFrame == << engineVars, procs, table, jobs, sax, crawl >>

addToCart ==
  \E product \in CartProducts :
    /\ BelowMaxQuantity(product.id)
    /\ cart' = cartAfterAdd(cart, product)
    /\ UNCHANGED cartFrame

decreaseQuantity ==
  \E id \in CartIds :
    /\ cart' = cartAfterDecrease(cart, id)
    /\ UNCHANGED cartFrame

increaseQuantity ==
  \E id \in CartIds :
    /\ BelowMaxQuantity(id)
    /\ cart' = cartAfterIncrease(cart, id)
    /\ UNCHANGED cartFrame

removeFromCart ==
  \E id \in CartIds :
    /\ cart' = withoutId(cart, id)
    /\ UNCHANGED cartFrame

clearCart ==
  /\ cart' = <<>>
  /\ UNCHANGED cartFrame

NextCart == addToCart \/ decreaseQuantity \/ increaseQuantity \/ removeFromCart \/ clearCart

SpecCart == InitCart /\ [][NextCart]_vars

OneEntryPerId ==
  \A i, j \in 1..Len(cart) : cart[i].item.id = cart[j].item.id => i = j

QuantityPositive == \A i \in 1..Len(cart) : cart[i].quantity >= 1

TotalOfStoredPrice ==
  \A i \in 1..Len(cart) :
    cart[i].totalPrice = cart[i].quantity * parsePrice(cart[i].item.price)

\* C37: after any sequence of addToCart, increaseQuantity, decreaseQuantity,
\* removeFromCart and clearCart the cart holds at most one entry per product
\* id, every entry has quantity >= 1, and every entry's totalPrice equals its
\* quantity times the price of the item stored in that entry.
C37_CartTotals == OneEntryPerId /\ QuantityPositive /\ TotalOfStoredPrice

\* the part of C37 that every reachable cart satisfies
CartShape == OneEntryPerId /\ QuantityPositive

\* ------------------------------------------------------------------------
\* SpecCrawl: the page-crawl sync (bmhome-sync.ts), its request queue and
\* its concurrently running page handlers.  Handlers run on one event loop:
\* the code between two awaits is one step, and steps of different handlers
\* interleave in any order.
\* ------------------------------------------------------------------------

MaxCrawlLimit == 2

MaxHandlers == 2

Handlers == 1..MaxHandlers

StartUrls == { "L1", "L2" }

ProductUrls == { "P1", "P2", "P3" }

\* request.userData.label
labelOf(url) == IF url \in ProductUrls THEN "PRODUCT" ELSE "LISTING"

\* extractProductLinks($), already normalized
extractProductLinks(url) ==
  CASE url = "L1" -> << "P1", "P2" >>
    [] url = "L2" -> << "P2", "P3" >>
    [] url = "L3" -> << "P3", "P1" >>
    [] OTHER -> << >>

getPaginationLinks(url) ==
  CASE url = "L1" -> { "L3" }
    [] url = "L3" -> { "L1" }
    [] OTHER -> { }

NeedAuthMessage == "NEED_AUTH_SUMMARY_RU"

IdleHandler == [ pc |-> "idle", url |-> "", links |-> << >> ]

\* handleError of bmhome-sync.ts: count the error and write it to the log
crawlHandleError(c, message) ==
  [ c EXCEPT !.errorsCount = @ + 1, !.errorLog = Append(@, message) ]

\* the handler h returns
handlerReturns(c, h) == [ c EXCEPT !.handlers[h] = IdleHandler ]

markNeedAuth_unguarded(c, h) ==
  [ crawlHandleError([ c EXCEPT !.needsAuthDetected = TRUE ], NeedAuthMessage)
      EXCEPT !.handlers[h].pc = "upsertRun" ]

\* markNeedAuth up to its await of upsertRun
markNeedAuth(c, h) ==
  IF c.needsAuthDetected THEN handlerReturns(c, h)
  ELSE [ crawlHandleError([ c EXCEPT !.needsAuthDetected = TRUE ], NeedAuthMessage)
           EXCEPT !.handlers[h].pc = "upsertRun" ]

\* processPage up to its first loop iteration or lookup
processPage(c, h) ==
  IF c.needsAuthDetected THEN handlerReturns(c, h)
  ELSE IF labelOf(c.handlers[h].url) = "LISTING"
    THEN [ c EXCEPT !.handlers[h].pc = "links",
                    !.handlers[h].links = extractProductLinks(c.handlers[h].url) ]
    ELSE [ c EXCEPT !.handlers[h].pc = "product" ]

limitReached_after(limit, size) == limit # 0 /\ size > limit

\* config.limit && queuedProducts.size >= config.limit
limitReached(limit, size) == limit # 0 /\ size >= limit

\* requestQueue.addRequest: a url already requested is not queued again
addRequests(c, urls) ==
  [ c EXCEPT !.pending = @ \cup (urls \ c.requested), !.requested = @ \cup urls ]

\* the listing handler after its loop: pagination links, then return
afterLinks(c, h) ==
  IF ~limitReached(c.limit, Cardinality(c.queuedProducts))
    THEN handlerReturns(addRequests(c, getPaginationLinks(c.handlers[h].url)), h)
    ELSE handlerReturns(c, h)

\* one iteration of the loop over listingLinks, up to its await of addRequest
linkIteration(c, h) ==
  LET links == c.handlers[h].links
  IN IF links = << >> \/ limitReached(c.limit, Cardinality(c.queuedProducts))
       THEN afterLinks(c, h)
     ELSE IF Head(links) \in c.queuedProducts
       THEN [ c EXCEPT !.handlers[h].links = Tail(links) ]
     ELSE [ c EXCEPT !.queuedProducts = @ \cup { Head(links) },
                     !.productsFound = Cardinality(c.queuedProducts \cup { Head(links) }),
                     !.handlers[h].pc = "addRequest" ]

\* the finally block's choice of finalStatus
finalStatusOf(needsAuth, fatal) ==
  IF needsAuth THEN "NEED_AUTH"
  ELSE IF fatal THEN "FAILED"
  ELSE "SUCCESS"

AllIdle == \A h \in Handlers : crawl.handlers[h].pc = "idle"

InitCrawl ==
  /\ NoInput
  /\ lockFile = NoLock
  /\ EngineAtRest
  /\ procs = NoProcs
  /\ table = NoTable
  /\ jobs = NoJobs
  /\ sax = NoSax
  /\ cart = NoCart
  /\ \E limit \in 0..MaxCrawlLimit :
       crawl = [ limit |-> limit, pending |-> StartUrls, requested |-> StartUrls,
                 handlers |-> [ h \in Handlers |-> IdleHandler ],
                 queuedProducts |-> { }, productsFound |-> 0, productsParsed |-> 0,
                 needsAuthDetected |-> FALSE, fatalError |-> FALSE, aborted |-> FALSE,
                 errorsCount |-> 0, errorLog |-> << >>, runStatus |-> "RUNNING",
                 phase |-> "crawling", detections |-> 0 ]

crawlFrame == << engineVars, procs, table, jobs, sax, cart >>

\* the pool starts a handler for a queued request
StartHandler(h) ==
  /\ crawl.phase = "crawling"
  /\ ~crawl.aborted
  /\ crawl.handlers[h].pc = "idle"
  /\ \E url \in crawl.pending :
       crawl' = [ crawl EXCEPT !.pending = @ \ { url },
                               !.handlers[h] = [ pc |-> "started", url |-> url, links |-> << >> ] ]
  /\ UNCHANGED crawlFrame

\* a request fails for good: failedRequestHandler
failedRequestHandler ==
  /\ crawl.phase = "crawling"
  /\ ~crawl.aborted
  /\ \E url \in crawl.pending :
       crawl' = crawlHandleError([ crawl EXCEPT !.pending = @ \ { url } ], "Request failed")
  /\ UNCHANGED crawlFrame

\* requestHandler after the page is loaded: detectNeedAuth, then markNeedAuth
\* or processPage
requestHandler(h) ==
  /\ crawl.handlers[h].pc = "started"
  /\ \E authReason \in BOOLEAN :
       crawl' = IF authReason
                  THEN markNeedAuth([ crawl EXCEPT !.detections = @ + 1 ], h)
                  ELSE processPage(crawl, h)
  /\ UNCHANGED crawlFrame

\* markNeedAuth after upsertRun settles: abort the crawler, or the rejection
\* reaches requestHandler's catch
NeedAuthUpserted(h) ==
  /\ crawl.handlers[h].pc = "upsertRun"
  /\ \E ok \in BOOLEAN :
       crawl' = IF ok
                  THEN handlerReturns([ crawl EXCEPT !.runStatus = "NEED_AUTH",
                                                     !.aborted = TRUE ], h)
                  ELSE handlerReturns(crawlHandleError(crawl, "Unhandled product parse error"), h)
  /\ UNCHANGED crawlFrame

ListingLink(h) ==
  /\ crawl.handlers[h].pc = "links"
  /\ crawl' = linkIteration(crawl, h)
  /\ UNCHANGED crawlFrame

\* the awaited addRequest of the product page settles
ProductRequested(h) ==
  /\ crawl.handlers[h].pc = "addRequest"
  /\ crawl' = [ addRequests(crawl, { Head(crawl.handlers[h].links) })
                  EXCEPT !.handlers[h].pc = "links",
                         !.handlers[h].links = Tail(crawl.handlers[h].links) ]
  /\ UNCHANGED crawlFrame

\* the product branch of processPage
ProductPage(h) ==
  /\ crawl.handlers[h].pc = "product"
  /\ \E outcome \in { "parsed", "Missing product code", "Unhandled product parse error" } :
       crawl' = IF outcome = "parsed"
                  THEN handlerReturns([ crawl EXCEPT !.productsParsed = @ + 1 ], h)
                  ELSE handlerReturns(crawlHandleError(crawl, outcome), h)
  /\ UNCHANGED crawlFrame

\* crawler.run() resolves: nothing left to do, or the pool was aborted
CrawlerResolves ==
  /\ crawl.phase = "crawling"
  /\ crawl.aborted \/ (AllIdle /\ crawl.pending = { })
  /\ crawl' = [ crawl EXCEPT !.phase = "finally" ]
  /\ UNCHANGED crawlFrame

\* crawler.run() rejects
CrawlerRejects ==
  /\ crawl.phase = "crawling"
  /\ ~crawl.aborted
  /\ AllIdle
  /\ crawl' = [ crawlHandleError(crawl, "Cheerio crawler failed to start.")
                  EXCEPT !.fatalError = TRUE, !.phase = "finally" ]
  /\ UNCHANGED crawlFrame

\* main's finally block
Finally ==
  /\ crawl.phase = "finally"
  /\ crawl' = [ crawl EXCEPT !.phase = "done",
                  !.runStatus = finalStatusOf(crawl.needsAuthDetected, crawl.fatalError) ]
  /\ UNCHANGED crawlFrame

NextCrawl ==
  \/ \E h \in Handlers : StartHandler(h)
  \/ failedRequestHandler
  \/ \E h \in Handlers : requestHandler(h)
  \/ \E h \in Handlers : NeedAuthUpserted(h)
  \/ \E h \in Handlers : ListingLink(h)
  \/ \E h \in Handlers : ProductRequested(h)
  \/ \E h \in Handlers : ProductPage(h)
  \/ CrawlerResolves
  \/ CrawlerRejects
  \/ Finally

SpecCrawl == InitCrawl /\ [][NextCrawl]_vars

ProductsEnqueued == { url \in crawl.requested : labelOf(url) = "PRODUCT" }

\* C38: with a limit N configured, the distinct product pages enqueued, and
\* productsFound, never exceed N under any interleaving of the listing-page
\* handlers.
C38_LimitUnderConcurrency ==
  crawl.limit # 0 =>
    /\ Cardinality(ProductsEnqueued) <= crawl.limit
    /\ Cardinality(crawl.queuedProducts) <= crawl.limit
    /\ crawl.productsFound <= crawl.limit

\* the handler is inside the listing loop with a link not queued yet
HasNewLink(h) ==
  /\ crawl.handlers[h].pc \in { "links", "addRequest" }
  /\ \E i \in 1..Len(crawl.handlers[h].links) :
       crawl.handlers[h].links[i] \notin ProductsEnqueued

C38_Witness ==
  /\ crawl.limit = MaxCrawlLimit
  /\ crawl.productsFound = crawl.limit
  /\ Cardinality(ProductsEnqueued) = crawl.limit
  /\ crawl.handlers[1].pc = "links"
  /\ crawl.handlers[2].pc = "links"
  /\ crawl.handlers[1].links # << >>
  /\ crawl.handlers[2].links # << >>
  /\ \E h \in Handlers : Head(crawl.handlers[h].links) \notin crawl.queuedProducts

NeedAuthRecorded ==
  Cardinality({ i \in 1..Len(crawl.errorLog) : crawl.errorLog[i] = NeedAuthMessage })

\* C39: when a page handler detects an access challenge the need-auth error
\* is recorded exactly once however many handlers detect it, and the run ends
\* NEED_AUTH whatever other errors were recorded; when none detects one the
\* run ends FAILED if the crawler failed fatally and SUCCESS otherwise.
C39_NeedAuth ==
  /\ NeedAuthRecorded = (IF crawl.detections > 0 THEN 1 ELSE 0)
  /\ crawl.phase = "done" =>
       crawl.runStatus = (IF crawl.detections > 0 THEN "NEED_AUTH"
                          ELSE IF crawl.fatalError THEN "FAILED"
                          ELSE "SUCCESS")

C39_Witness ==
  /\ crawl.phase = "done"
  /\ crawl.detections >= 2
  /\ crawl.fatalError
  /\ crawl.errorsCount >= 3
  /\ crawl.runStatus = "NEED_AUTH"

====
